---- MODULE Spec2Model ----
(***************************************************************************)
(* Model of the peer pool of xud (lib/p2p/Pool.ts).                        *)
(*                                                                         *)
(* There are two nodes, named by their node pub keys (1 < 2, compared as   *)
(* the code compares the pub key strings).  The nodes in `live' run the    *)
(* pool code; a node that is not live is a remote node of which only the   *)
(* packets and socket events that reach the pool are modelled.  A socket   *)
(* is a slot with two ends; each end at a live node is a Peer object of    *)
(* that node's pool.                                                       *)
(*                                                                         *)
(* Peer.ts and NodeList.ts are not part of the sources at hand: the Peer   *)
(* session (beginOpen / completeOpen / close) and the NodeList (ban,       *)
(* unBan, isBanned, has) are modelled from the design document.            *)
(*                                                                         *)
(* Every handler of Pool.ts is a function from a state record to a state   *)
(* record, so that a handler that calls other handlers synchronously       *)
(* (handlePeerClose -> tryConnectNode -> addOutbound -> openPeer) is one   *)
(* atomic step, as it is on the event loop.                                *)
(*                                                                         *)
(* The broadcasts of the pool are modelled on their own (SpecBroadcast),   *)
(* as functions of the peers map, which there ranges over MaxPeers nodes.  *)
(***************************************************************************)
EXTENDS Integers, Sequences, FiniteSets, TLC

\* ------------------------------------------------------------------------
\* Bounds
\* ------------------------------------------------------------------------
\* number of sockets that may exist at the same time
MaxConns == 3
\* number of calls made to a pool from outside and of events caused by the
\* remote nodes and the network, per behaviour
MaxOps == 4
\* the same number in the behaviours in which the pool opens peers of any
\* version, where every connection has more outcomes
MaxOpenOps == 3
\* number of nodes that may be peers of the pool when it broadcasts
MaxPeers == 3
\* number of entries of config.addresses
MaxAddresses == 2
\* number of advertised addresses of a node, and the greatest lastConnected
\* time stamp of one (0: the address has none)
MaxAdvertised == 3
MaxLastConnected == 2

\* ------------------------------------------------------------------------
\* Names
\* ------------------------------------------------------------------------
\* the pools; a pool is identified by its nodePubKey
Pools == {1, 2}
PubKeys == Pools
Slots == 1..MaxConns
\* peer objects: the outbound and the inbound end of every socket slot
Out(c) == 2 * c - 1
In(c) == 2 * c
PeerIds == 1..(2 * MaxConns)
NoPeer == 0
Other(e) == IF e % 2 = 1 THEN e + 1 ELSE e - 1
IsInbound(e) == e % 2 = 0
SlotOf(e) == (e + 1) \div 2

NoReason == "None"

\* the version in a Hello, as Pool.validatePeer tells versions apart: a valid
\* semver not lower than minCompatibleVersion, a valid semver lower than it,
\* and a string that is not a valid semver
Versions == {"ok", "low", "malformed"}

\* the address given to addOutbound, as its checks tell addresses apart: an
\* address of the node, a loopback or wildcard host with the pool's own listen
\* port (addressIsSelf), and a .onion host (config.tor is off)
Addresses == {"node", "self", "onion"}

\* the nodes that may be peers of the broadcasting pool, the trading pairs,
\* and the nodeToExclude argument that is not given
BroadcastKeys == 1..MaxPeers
PairIds == {"LTC/BTC", "ETH/BTC"}
NoNode == 0
\* no broadcast has been made
NoBroadcast ==
  [op |-> "none", pairId |-> "none", nodeToExclude |-> NoNode, sent |-> {},
   returned |-> FALSE, waiting |-> {}]

\* hosts and ports of listen addresses; an address string of the
\* configuration may lack the port
Hosts == {"10.0.0.1", "203.0.113.7"}
Ports == {8885, 18885}
NoPort == 0
AddressStrings == [host : Hosts, port : Ports \cup {NoPort}]
\* the pool configurations that differ in what the pool advertises
Configs ==
  [listen : BOOLEAN, port : Ports, detectexternalip : BOOLEAN,
   addresses : UNION {[1..n -> AddressStrings] : n \in 0..MaxAddresses}]
\* the outcomes of getExternalIp: an IP address, or an error
\* the addresses of a node: host and port with the time of the last connection
\* (0: none); the lastAddress of a node, which may be missing; the nodes that
\* tryConnectNode is given
NodeAddresses == [host : Hosts, port : Ports, lastConnected : 0..MaxLastConnected]
NoAddress == [host |-> "none", port |-> NoPort]
LastAddresses == [host : Hosts, port : Ports] \cup {NoAddress}
NodeConnectionInfos ==
  [lastAddress : LastAddresses,
   addresses : UNION {[1..n -> NodeAddresses] : n \in 0..MaxAdvertised}]
\* no tryConnectNode call is followed
NoConnect ==
  [node |-> [lastAddress |-> NoAddress, addresses |-> << >>],
   retryConnecting |-> FALSE, pc |-> "none", sortedAddresses |-> << >>, i |-> 0,
   attempts |-> << >>, results |-> << >>]

\* the ids of the GetNodes packets, and no id
ReqIds == {"7d3f", "a91c"}
NoReqId == "none"
\* what Peer.addresses of a peer may be: undefined, or a list of addresses
PeerAddresses ==
  {[defined |-> FALSE, addresses |-> << >>],
   [defined |-> TRUE, addresses |-> << >>],
   [defined |-> TRUE, addresses |-> <<[host |-> "10.0.0.1", port |-> 8885]>>],
   [defined |-> TRUE, addresses |-> <<[host |-> "203.0.113.7", port |-> 18885],
                                      [host |-> "10.0.0.1", port |-> 8885]>>]}
\* the entry of the peers map for a key that is not in it
NotInPeers == [has |-> FALSE, defined |-> FALSE, addresses |-> << >>]
\* no Nodes packet has been sent
NoPacket == [type |-> "none", reqId |-> NoReqId, body |-> << >>]
\* no GetNodes packet has been handled by a pool without peers
NoGetNodes ==
  [peers |-> [k \in BroadcastKeys |-> NotInPeers], pc |-> "none", requester |-> NoNode,
   reqId |-> NoReqId, at |-> [k \in BroadcastKeys |-> NotInPeers], reply |-> NoPacket]

\* number of reputation events raised for a node
MaxEvents == 3
\* the reputation events: those that a pool that is not strict forwards, and
\* one that it does not
SevereEvents ==
  {"ManualBan", "ManualUnban", "SwapAbuse", "SwapMisbehavior", "WireProtocolErr",
   "InvalidAuth"}
ReputationEvents == SevereEvents \cup {"SwapSuccess"}
\* the score below which a node is banned
BanThreshold == -100
\* no reputation event has been raised
NoReputation ==
  [strict |-> TRUE, nodePubKey |-> NoNode, forwarded |-> << >>, score |-> 0,
   banned |-> FALSE, raised |-> 0, event |-> "none", via |-> "none"]

ExternalIps == Hosts \cup {"198.51.100.9", "error"}

\* the Peer object before it exists / after it has been forgotten
NoRec ==
  [pool |-> 0, pc |-> "none", sock |-> "none", key |-> 0, exp |-> 0,
   ver |-> "none", active |-> FALSE, sent |-> NoReason, recv |-> NoReason,
   retry |-> FALSE, task |-> "none", bulk |-> FALSE,
   hs |-> 0, hop |-> "none", err |-> "none", waitOn |-> 0]

VARIABLES
  live,                  \* the nodes that run the pool code
  connected,             \* Pool.connected
  disconnecting,         \* Pool.disconnecting
  listening,             \* Pool.server is listening
  loadingNodes,          \* Pool.loadingNodesPromise: "none", "loading" (nodes.load() runs),
                         \* "connecting" (resolved, connectNodes runs), "cleared" (reset to
                         \* undefined by an earlier start-up while nodes.load() runs)
  dpc,                   \* position of a running disconnect() call
  peers,                 \* Pool.peers: pub key -> peer
  pendingOutboundPeers,  \* Pool.pendingOutboundPeers: pub key -> peer
  pendingInboundPeers,   \* Pool.pendingInboundPeers: set of peers
  nodes,                 \* Pool.nodes (NodeList): pub key -> "unknown", "known", "banned"
  db,                    \* the node store behind the NodeList
  peer,                  \* the Peer objects
  waiters,               \* per pool: peers waiting in duplicate resolution, in order
  ops,                   \* number of calls and events from outside so far
  last,                  \* the last handler that ran, its arguments (pool, key, address,
                         \* the list of a Nodes packet) and outcome: the value
                         \* returned or the error thrown (ret), the peers that were closed
                         \* while active (closes), the Peer.close calls made (calls), the
                         \* openPeer calls that returned or threw (rets), the events emitted
                         \* and packets sent (events)
  hist,                  \* history: revoke - an addOutbound call has replaced a pending
                         \* attempt; dialed - the pools whose dial has reached a live pool
  links,                 \* the peers map of a broadcasting pool, per pub key: whether the
                         \* key is in the map (has), the active pairs of the peer (pairs),
                         \* whether sendPacket of the peer never completes (stalled)
  config,                \* Pool.config, as far as it decides the advertised addresses
  nodeState,             \* Pool.nodeState: the advertised addresses, in order
  connect,               \* a tryConnectNode call: its arguments (node, retryConnecting),
                         \* where it is (pc: "idle" before the call, then the addOutbound
                         \* it awaits - "last", "advertised", "final" - and "done"), the
                         \* sorted addresses and the index of its loop, the addOutbound
                         \* calls it has made (attempts: address and retryConnecting) and
                         \* whether they succeeded (results)
  getNodes,              \* the GetNodes packets a pool handles: its peers map, per pub
                         \* key (has: the key is in the map; defined, addresses:
                         \* Peer.addresses), where handleGetNodes is (pc: "idle", or
                         \* "sendNodes" while it awaits peer.sendNodes), the last
                         \* GetNodes handled (requester, reqId, and the peers map at its
                         \* receipt: at) and the packet sent in reply (reply)
  reputation,            \* the reputation events of one node: Pool.strict, the nodePubKey
                         \* of the peer of the node (NoNode: not known yet), the events
                         \* that NodeList.addReputationEvent was called with (forwarded),
                         \* the score and the ban of the node in the NodeList, the number
                         \* of events raised so far, the last event raised and who
                         \* raised it (via: "pool" - a call of Pool.addReputationEvent,
                         \* "peer" - the 'reputation' event of the peer)
  broadcast              \* the last broadcast: the call and its arguments, the peers whose
                         \* sendPacket it has called (sent), whether it has returned, and
                         \* the peers with a sendPacket that has not completed (waiting)

poolVars ==
  <<live, connected, disconnecting, listening, loadingNodes, dpc, peers,
    pendingOutboundPeers, pendingInboundPeers, nodes, db, peer, waiters, ops, last,
    hist>>

vars ==
  <<live, connected, disconnecting, listening, loadingNodes, dpc, peers,
    pendingOutboundPeers, pendingInboundPeers, nodes, db, peer, waiters, ops, last,
    hist, links, config, nodeState, connect, getNodes, reputation, broadcast>>

\* the state as one record, on which the handlers operate
Cur ==
  [live |-> live, connected |-> connected, disconnecting |-> disconnecting,
   listening |-> listening, loadingNodes |-> loadingNodes, dpc |-> dpc,
   peers |-> peers, pendingOutboundPeers |-> pendingOutboundPeers,
   pendingInboundPeers |-> pendingInboundPeers, nodes |-> nodes, db |-> db,
   peer |-> peer, waiters |-> waiters, ops |-> ops, last |-> last, hist |-> hist,
   ret |-> "OK", full |-> FALSE]

\* ------------------------------------------------------------------------
\* NodeList (lookups)
\* ------------------------------------------------------------------------
isBanned(S, p, k) == S.nodes[p][k] = "banned"

has(S, p, k) == S.nodes[p][k] # "unknown"

\* ------------------------------------------------------------------------
\* Socket slots
\* ------------------------------------------------------------------------
FreeSlots(S) ==
  {c \in Slots : S.peer[Out(c)].pc = "none" /\ S.peer[In(c)].pc = "none"}

NewSlot(S) == CHOOSE c \in FreeSlots(S) : \A d \in FreeSlots(S) : c <= d

\* a Peer object nothing refers to any more and whose calls have all returned
Garbage(S, e) ==
  LET r == S.peer[e] IN
  \/ r.pc \in {"none", "remote"}
  \/ /\ r.pc = "done"
     /\ r.sock = "closed"
     /\ r.hop = "none"
     /\ \A p \in Pools :
          /\ \A k \in PubKeys : S.peers[p][k] # e /\ S.pendingOutboundPeers[p][k] # e
          /\ e \notin S.pendingInboundPeers[p]
          /\ \A i \in 1..Len(S.waiters[p]) : S.waiters[p][i] # e
     /\ \A w \in PeerIds : S.peer[w].waitOn # e

\* forget the sockets both of whose ends are garbage
Collect(S) ==
  [S EXCEPT !.peer =
     [e \in PeerIds |->
        IF Garbage(S, e) /\ Garbage(S, Other(e)) THEN NoRec ELSE S.peer[e]]]

\* ------------------------------------------------------------------------
\* Pool.addOutbound up to its first suspension (the dial in Peer.beginOpen)
\* ------------------------------------------------------------------------
Throw(S, code) == [S EXCEPT !.ret = code]

\* Peer.revokeConnectionRetries: a dial that is being retried is given up
revokeConnectionRetries(S, e) == [S EXCEPT !.peer[e].retry = FALSE]

\* addOutbound without the check of peers
addOutboundChecks_NoConnectedCheck(S, p, k, address, revoke) ==
  IF k = p \/ address = "self" THEN "ATTEMPTED_CONNECTION_TO_SELF"
  ELSE IF S.disconnecting[p] \/ ~S.connected[p] THEN "POOL_CLOSED"
  ELSE IF address = "onion" THEN "NODE_TOR_ADDRESS"
  ELSE IF isBanned(S, p, k) THEN "NODE_IS_BANNED"
  ELSE IF S.pendingOutboundPeers[p][k] # NoPeer /\ ~revoke THEN "ALREADY_CONNECTING"
  ELSE "OK"

\* addOutbound without the check of pendingOutboundPeers
addOutboundChecks_NoPendingCheck(S, p, k, address, revoke) ==
  IF k = p \/ address = "self" THEN "ATTEMPTED_CONNECTION_TO_SELF"
  ELSE IF S.disconnecting[p] \/ ~S.connected[p] THEN "POOL_CLOSED"
  ELSE IF address = "onion" THEN "NODE_TOR_ADDRESS"
  ELSE IF isBanned(S, p, k) THEN "NODE_IS_BANNED"
  ELSE IF S.peers[p][k] # NoPeer THEN "NODE_ALREADY_CONNECTED"
  ELSE "OK"

\* addOutbound without the check of the ban
addOutboundChecks_NoBanCheck(S, p, k, address, revoke) ==
  IF k = p \/ address = "self" THEN "ATTEMPTED_CONNECTION_TO_SELF"
  ELSE IF S.disconnecting[p] \/ ~S.connected[p] THEN "POOL_CLOSED"
  ELSE IF address = "onion" THEN "NODE_TOR_ADDRESS"
  ELSE IF S.peers[p][k] # NoPeer THEN "NODE_ALREADY_CONNECTED"
  ELSE IF S.pendingOutboundPeers[p][k] # NoPeer /\ ~revoke THEN "ALREADY_CONNECTING"
  ELSE "OK"

\* addOutbound without the check of the state of the pool
addOutboundChecks_NoClosedCheck(S, p, k, address, revoke) ==
  IF k = p \/ address = "self" THEN "ATTEMPTED_CONNECTION_TO_SELF"
  ELSE IF address = "onion" THEN "NODE_TOR_ADDRESS"
  ELSE IF isBanned(S, p, k) THEN "NODE_IS_BANNED"
  ELSE IF S.peers[p][k] # NoPeer THEN "NODE_ALREADY_CONNECTED"
  ELSE IF S.pendingOutboundPeers[p][k] # NoPeer /\ ~revoke THEN "ALREADY_CONNECTING"
  ELSE "OK"

\* addOutbound with the check of pendingOutboundPeers before that of peers
addOutboundChecks_PendingFirst(S, p, k, address, revoke) ==
  IF k = p \/ address = "self" THEN "ATTEMPTED_CONNECTION_TO_SELF"
  ELSE IF S.disconnecting[p] \/ ~S.connected[p] THEN "POOL_CLOSED"
  ELSE IF address = "onion" THEN "NODE_TOR_ADDRESS"
  ELSE IF isBanned(S, p, k) THEN "NODE_IS_BANNED"
  ELSE IF S.pendingOutboundPeers[p][k] # NoPeer /\ ~revoke THEN "ALREADY_CONNECTING"
  ELSE IF S.peers[p][k] # NoPeer THEN "NODE_ALREADY_CONNECTED"
  ELSE "OK"

\* the checks of addOutbound, in their order: the error thrown, or "OK"
addOutboundChecks(S, p, k, address, revoke) ==
  IF k = p \/ address = "self" THEN "ATTEMPTED_CONNECTION_TO_SELF"
  ELSE IF S.disconnecting[p] \/ ~S.connected[p] THEN "POOL_CLOSED"
  ELSE IF address = "onion" THEN "NODE_TOR_ADDRESS"
  ELSE IF isBanned(S, p, k) THEN "NODE_IS_BANNED"
  ELSE IF S.peers[p][k] # NoPeer THEN "NODE_ALREADY_CONNECTED"
  ELSE IF S.pendingOutboundPeers[p][k] # NoPeer /\ ~revoke THEN "ALREADY_CONNECTING"
  ELSE "OK"

\* addOutbound that does not enter the peer into pendingOutboundPeers
addOutbound_PendingNotSet(S, p, k, address, retryConnecting, revoke, task, bulk) ==
  IF addOutboundChecks(S, p, k, address, revoke) # "OK"
    THEN Throw(S, addOutboundChecks(S, p, k, address, revoke))
  ELSE IF FreeSlots(S) = {} THEN [S EXCEPT !.full = TRUE, !.ret = "NOSLOT"]
  ELSE
    LET e == Out(NewSlot(S))
    IN [S EXCEPT
          !.peer[e] = [NoRec EXCEPT !.pool = p, !.pc = "dial", !.sock = "open",
                                    !.exp = k, !.retry = retryConnecting,
                                    !.task = task, !.bulk = bulk],
          !.ret = "PENDING"]

addOutbound(S, p, k, address, retryConnecting, revoke, task, bulk) ==
  IF addOutboundChecks(S, p, k, address, revoke) # "OK"
    THEN Throw(S, addOutboundChecks(S, p, k, address, revoke))
  ELSE IF FreeSlots(S) = {} THEN [S EXCEPT !.full = TRUE, !.ret = "NOSLOT"]
  ELSE
    LET pendingPeer == S.pendingOutboundPeers[p][k]
        S1 == IF pendingPeer # NoPeer /\ revoke
                THEN [revokeConnectionRetries(S, pendingPeer) EXCEPT !.hist.revoke = TRUE]
                ELSE S
        e == Out(NewSlot(S))
    IN [S1 EXCEPT
          !.peer[e] = [NoRec EXCEPT !.pool = p, !.pc = "dial", !.sock = "open",
                                    !.exp = k, !.retry = retryConnecting,
                                    !.task = task, !.bulk = bulk],
          !.pendingOutboundPeers[p][k] = e,
          !.ret = "PENDING"]

\* ------------------------------------------------------------------------
\* Pool.tryConnectNode.  A node has one address, which is its lastAddress,
\* so tryConnectWithAdvertisedAddresses skips it and returns false.  The
\* address is one of the node.
\* ------------------------------------------------------------------------
tryConnectNode(S, p, k, retryConnecting, bulk) ==
  LET S1 == addOutbound(S, p, k, "node", FALSE, FALSE,
                        IF retryConnecting THEN "lastThenRetry" ELSE "last", bulk)
  IN IF S1.ret = "PENDING" \/ S1.full THEN S1
     ELSE IF retryConnecting
       THEN addOutbound(S1, p, k, "node", TRUE, FALSE, "final", bulk)
       ELSE S1

\* the start-up connectNodes call of pool p still has a tryConnectNode running
BulkPending(S, p) ==
  \E e \in PeerIds : S.peer[e].pool = p /\ S.peer[e].bulk
                     /\ S.peer[e].pc \notin {"none", "done"}

\* ------------------------------------------------------------------------
\* openPeer has returned or thrown
\* ------------------------------------------------------------------------
\* the finally block of addOutbound, and the rest of tryConnectNode when the
\* call was made by it
addOutboundReturn(S, e, code) ==
  LET r == S.peer[e]
      p == r.pool
      S1 == [S EXCEPT !.pendingOutboundPeers[p][r.exp] = NoPeer,
                      !.peer[e].pc = "done",
                      !.peer[e].retry = FALSE,
                      !.peer[e].task = "none",
                      !.peer[e].bulk = FALSE,
                      !.last.rets = @ \cup {<<e, code>>}]
      S2 == IF code # "OK" /\ r.task = "lastThenRetry"
              THEN addOutbound(S1, p, r.exp, "node", TRUE, FALSE, "final", r.bulk)
              ELSE S1
  IN IF r.bulk /\ ~BulkPending(S2, p)
       THEN [S2 EXCEPT !.loadingNodes[p] =
                          IF @ \in {"loading", "cleared"} THEN "cleared" ELSE "none"]
       ELSE S2

\* the rest of addInbound after tryOpenPeer
addInboundReturn(S, e, code) ==
  [S EXCEPT !.pendingInboundPeers[S.peer[e].pool] = @ \ {e},
            !.peer[e].pc = "done",
            !.last.rets = @ \cup {<<e, code>>}]

openPeerReturn(S, e, code) ==
  IF IsInbound(e) THEN addInboundReturn(S, e, code)
  ELSE addOutboundReturn(S, e, code)

\* ------------------------------------------------------------------------
\* Pool.handlePeerClose, bound to the 'close' event of every peer
\* ------------------------------------------------------------------------
\* the reason received is not looked at
doesDisconnectionReasonCallForReconnection_AnyReceived(sent, recv) ==
  sent \in {NoReason, "ResponseStalling"}

doesDisconnectionReasonCallForReconnection(sent, recv) ==
  /\ sent \in {NoReason, "ResponseStalling"}
  /\ recv \in {NoReason, "ResponseStalling", "AlreadyConnected", "Shutdown"}

shouldReconnect(S, e) ==
  LET r == S.peer[e] IN
  /\ doesDisconnectionReasonCallForReconnection(r.sent, r.recv)
  /\ ~IsInbound(e)
  /\ r.key # 0
  /\ ~S.disconnecting[r.pool] /\ S.connected[r.pool]

\* the entry of the peer stays in peers
handlePeerClose_KeepsEntry(S, e) ==
  LET r == S.peer[e]
      p == r.pool
  IN IF ~r.active THEN S
     ELSE
       LET S1 == [S EXCEPT !.peer[e].active = FALSE]
           re == shouldReconnect(S1, e)
           S2 == [S1 EXCEPT !.last.closes = @ \cup
                    {[peer |-> e, key |-> r.key, inbound |-> IsInbound(e),
                      sent |-> r.sent, recv |-> r.recv,
                      connected |-> S.connected[p],
                      disconnecting |-> S.disconnecting[p],
                      reconnect |-> re]},
                    !.last.events = @ \cup {<<"peer.close", e, r.key>>}]
       IN IF re THEN tryConnectNode(S2, p, r.key, TRUE, FALSE) ELSE S2

\* the entry of the peer's pub key is deleted whether the peer is active or not
handlePeerClose_DeletesAlways(S, e) ==
  LET r == S.peer[e]
      p == r.pool
      S0 == IF r.key \in PubKeys THEN [S EXCEPT !.peers[p][r.key] = NoPeer] ELSE S
  IN IF ~r.active THEN S0
     ELSE
       LET S1 == [S0 EXCEPT !.peer[e].active = FALSE]
           re == shouldReconnect(S1, e)
           S2 == [S1 EXCEPT !.last.closes = @ \cup
                    {[peer |-> e, key |-> r.key, inbound |-> IsInbound(e),
                      sent |-> r.sent, recv |-> r.recv,
                      connected |-> S.connected[p],
                      disconnecting |-> S.disconnecting[p],
                      reconnect |-> re]},
                    !.last.events = @ \cup {<<"peer.close", e, r.key>>}]
       IN IF re THEN tryConnectNode(S2, p, r.key, TRUE, FALSE) ELSE S2

handlePeerClose(S, e) ==
  LET r == S.peer[e]
      p == r.pool
  IN IF ~r.active THEN S
     ELSE
       LET S1 == [S EXCEPT !.peers[p][r.key] = NoPeer,
                           !.peer[e].active = FALSE]
           re == shouldReconnect(S1, e)
           S2 == [S1 EXCEPT !.last.closes = @ \cup
                    {[peer |-> e, key |-> r.key, inbound |-> IsInbound(e),
                      sent |-> r.sent, recv |-> r.recv,
                      connected |-> S.connected[p],
                      disconnecting |-> S.disconnecting[p],
                      reconnect |-> re]},
                    !.last.events = @ \cup {<<"peer.close", e, r.key>>}]
       IN IF re THEN tryConnectNode(S2, p, r.key, TRUE, FALSE) ELSE S2

\* ------------------------------------------------------------------------
\* Pool.openPeer, from the insertion into peers on
\* ------------------------------------------------------------------------
\* the peer is inserted into peers and not marked active
admit_NotActive(S, e) ==
  LET r == S.peer[e] IN
  openPeerReturn([S EXCEPT !.peers[r.pool][r.key] = e,
                           !.peer[e].hop = "pending",
                           !.peer[e].waitOn = 0],
                 e, "OK")

\* peer.active is emitted when the peer is inserted into peers
admit_EmitsActive(S, e) ==
  LET r == S.peer[e] IN
  openPeerReturn([S EXCEPT !.peers[r.pool][r.key] = e,
                           !.peer[e].active = TRUE,
                           !.peer[e].hop = "pending",
                           !.peer[e].waitOn = 0,
                           !.last.events = @ \cup {<<"peer.active", e, r.key>>}],
                 e, "OK")

admit(S, e) ==
  LET r == S.peer[e] IN
  openPeerReturn([S EXCEPT !.peers[r.pool][r.key] = e,
                           !.peer[e].active = TRUE,
                           !.peer[e].hop = "pending",
                           !.peer[e].waitOn = 0],
                 e, "OK")

\* the peers of pool p that wait in duplicate resolution for x to close see
\* its 'close' event, in the order in which they started to wait
RECURSIVE resolveWaiters(_, _, _, _)
resolveWaiters(S, p, x, i) ==
  IF i > Len(S.waiters[p]) THEN S
  ELSE LET w == S.waiters[p][i] IN
       IF S.peer[w].waitOn = x
         THEN resolveWaiters(
                admit([S EXCEPT !.waiters[p] =
                         SubSeq(@, 1, i - 1) \o SubSeq(@, i + 1, Len(@))], w),
                p, x, i)
         ELSE resolveWaiters(S, p, x, i + 1)

\* ------------------------------------------------------------------------
\* Peer: the 'close' event and Peer.close
\* ------------------------------------------------------------------------
\* the address is removed whatever the error of the open
emitClose_RemovesOnAnyError(S, e) ==
  LET r == S.peer[e]
      S1 == [S EXCEPT !.dpc = [p \in Pools |->
                                 [S.dpc[p] EXCEPT !.closing = @ \ {e}]],
                      !.peer[e].sock = "closed"]
      S2 == handlePeerClose(S1, e)
      S3 == resolveWaiters(S2, r.pool, e, 1)
      S4 == [S3 EXCEPT !.peer[e].sent = NoReason, !.peer[e].recv = NoReason,
                       !.peer[e].err = "none",
                       !.last.events =
                          IF /\ r.pc \in {"dial", "hello", "ack"}
                             /\ r.err # "none"
                            THEN @ \cup {<<"removeAddress", e, r.exp>>} ELSE @]
  IN IF r.pc \in {"dial", "hello", "ack"}
       THEN openPeerReturn(S4, e, IF r.err # "none" THEN r.err ELSE "NOT_CONNECTED")
     ELSE IF r.pc = "closeThrow" THEN openPeerReturn(S4, e, r.err)
     ELSE S4

\* the peer is closed: what it awaited is rejected, its listeners run
emitClose(S, e) ==
  LET r == S.peer[e]
      S1 == [S EXCEPT !.dpc = [p \in Pools |->
                                 [S.dpc[p] EXCEPT !.closing = @ \ {e}]],
                      !.peer[e].sock = "closed"]
      S2 == handlePeerClose(S1, e)
      S3 == resolveWaiters(S2, r.pool, e, 1)
      S4 == [S3 EXCEPT !.peer[e].sent = NoReason, !.peer[e].recv = NoReason,
                       !.peer[e].err = "none",
                       !.last.events =
                          IF /\ r.pc \in {"dial", "hello", "ack"}
                             /\ r.err = "CONNECTION_RETRIES_MAX_PERIOD_EXCEEDED"
                            THEN @ \cup {<<"removeAddress", e, r.exp>>} ELSE @]
  IN IF r.pc \in {"dial", "hello", "ack"}
       THEN openPeerReturn(S4, e, IF r.err # "none" THEN r.err ELSE "NOT_CONNECTED")
     ELSE IF r.pc = "closeThrow" THEN openPeerReturn(S4, e, r.err)
     ELSE S4

\* Peer.close(reason): with a reason the Disconnecting packet is sent first
\* and the 'close' event follows; without one the peer closes at once
peerClose(S, e, reason) ==
  LET S1 == [S EXCEPT !.last.calls = @ \cup {<<e, reason>>}] IN
  IF S.peer[e].sock # "open" THEN S1
  ELSE IF reason = NoReason THEN emitClose(S1, e)
  ELSE [S1 EXCEPT !.peer[e].sock = "closing", !.peer[e].sent = reason]

\* openPeer closes its own peer and throws
closeAndThrow(S, e, reason, code) ==
  LET S1 == peerClose(S, e, reason) IN
  IF S1.peer[e].sock = "closing"
    THEN [S1 EXCEPT !.peer[e].pc = "closeThrow", !.peer[e].err = code, !.ret = code]
    ELSE [openPeerReturn(S1, e, code) EXCEPT !.ret = code]

\* ------------------------------------------------------------------------
\* Pool.validatePeer
\* ------------------------------------------------------------------------
\* the checks of validatePeer, in their order: the reason to close the peer
\* with and the error thrown, or "OK"
\* validatePeer without the check of the own pub key
validatePeerChecks_NoSelfCheck(S, e) ==
  LET r == S.peer[e]
      p == r.pool
  IN IF r.ver = "malformed" THEN <<"MalformedVersion", "MALFORMED_VERSION">>
     ELSE IF r.ver = "low" THEN <<"IncompatibleProtocolVersion", "INCOMPATIBLE_VERSION">>
     ELSE IF ~S.connected[p] THEN <<"NotAcceptingConnections", "POOL_CLOSED">>
     ELSE IF isBanned(S, p, r.key) THEN <<"Banned", "NODE_IS_BANNED">>
     ELSE IF S.peers[p][r.key] # NoPeer THEN <<"AlreadyConnected", "NODE_ALREADY_CONNECTED">>
     ELSE IF r.sock # "open" THEN <<NoReason, "NOT_CONNECTED">>
     ELSE <<NoReason, "OK">>

\* validatePeer without the checks of the version
validatePeerChecks_NoVersionCheck(S, e) ==
  LET r == S.peer[e]
      p == r.pool
  IN IF r.key = p THEN <<"ConnectedToSelf", "ATTEMPTED_CONNECTION_TO_SELF">>
     ELSE IF ~S.connected[p] THEN <<"NotAcceptingConnections", "POOL_CLOSED">>
     ELSE IF isBanned(S, p, r.key) THEN <<"Banned", "NODE_IS_BANNED">>
     ELSE IF S.peers[p][r.key] # NoPeer THEN <<"AlreadyConnected", "NODE_ALREADY_CONNECTED">>
     ELSE IF r.sock # "open" THEN <<NoReason, "NOT_CONNECTED">>
     ELSE <<NoReason, "OK">>

\* validatePeer with the check of the ban before the checks of the version
validatePeerChecks_BannedFirst(S, e) ==
  LET r == S.peer[e]
      p == r.pool
  IN IF r.key = p THEN <<"ConnectedToSelf", "ATTEMPTED_CONNECTION_TO_SELF">>
     ELSE IF isBanned(S, p, r.key) THEN <<"Banned", "NODE_IS_BANNED">>
     ELSE IF r.ver = "malformed" THEN <<"MalformedVersion", "MALFORMED_VERSION">>
     ELSE IF r.ver = "low" THEN <<"IncompatibleProtocolVersion", "INCOMPATIBLE_VERSION">>
     ELSE IF ~S.connected[p] THEN <<"NotAcceptingConnections", "POOL_CLOSED">>
     ELSE IF S.peers[p][r.key] # NoPeer THEN <<"AlreadyConnected", "NODE_ALREADY_CONNECTED">>
     ELSE IF r.sock # "open" THEN <<NoReason, "NOT_CONNECTED">>
     ELSE <<NoReason, "OK">>

\* validatePeer closing a banned peer with AlreadyConnected
validatePeerChecks_BannedAsDuplicate(S, e) ==
  LET r == S.peer[e]
      p == r.pool
  IN IF r.key = p THEN <<"ConnectedToSelf", "ATTEMPTED_CONNECTION_TO_SELF">>
     ELSE IF r.ver = "malformed" THEN <<"MalformedVersion", "MALFORMED_VERSION">>
     ELSE IF r.ver = "low" THEN <<"IncompatibleProtocolVersion", "INCOMPATIBLE_VERSION">>
     ELSE IF ~S.connected[p] THEN <<"NotAcceptingConnections", "POOL_CLOSED">>
     ELSE IF isBanned(S, p, r.key) THEN <<"AlreadyConnected", "NODE_IS_BANNED">>
     ELSE IF S.peers[p][r.key] # NoPeer THEN <<"AlreadyConnected", "NODE_ALREADY_CONNECTED">>
     ELSE IF r.sock # "open" THEN <<NoReason, "NOT_CONNECTED">>
     ELSE <<NoReason, "OK">>

validatePeerChecks(S, e) ==
  LET r == S.peer[e]
      p == r.pool
  IN IF r.key = p THEN <<"ConnectedToSelf", "ATTEMPTED_CONNECTION_TO_SELF">>
     ELSE IF r.ver = "malformed" THEN <<"MalformedVersion", "MALFORMED_VERSION">>
     ELSE IF r.ver = "low" THEN <<"IncompatibleProtocolVersion", "INCOMPATIBLE_VERSION">>
     ELSE IF ~S.connected[p] THEN <<"NotAcceptingConnections", "POOL_CLOSED">>
     ELSE IF isBanned(S, p, r.key) THEN <<"Banned", "NODE_IS_BANNED">>
     ELSE IF S.peers[p][r.key] # NoPeer THEN <<"AlreadyConnected", "NODE_ALREADY_CONNECTED">>
     ELSE IF r.sock # "open" THEN <<NoReason, "NOT_CONNECTED">>
     ELSE <<NoReason, "OK">>

\* a failed check closes the peer with the reason and throws the error; the
\* last check, of the socket, throws without closing
validatePeer(S, e) ==
  LET reason == validatePeerChecks(S, e)[1]
      code == validatePeerChecks(S, e)[2]
  IN IF code = "OK" THEN [S EXCEPT !.ret = "OK"]
     ELSE IF reason = NoReason
       THEN [openPeerReturn(S, e, code) EXCEPT !.ret = code]
     ELSE closeAndThrow(S, e, reason, code)

\* ------------------------------------------------------------------------
\* Steps
\* ------------------------------------------------------------------------
\* a step of the pool
Begin(op, p, k) ==
  [Cur EXCEPT !.last = [op |-> op, pool |-> p, key |-> k, address |-> "none", ret |-> "",
                        list |-> {}, closes |-> {}, calls |-> {}, rets |-> {},
                        events |-> {}]]

\* a call from outside or an event caused by a remote node or the network
Outside(op, p, k) == [Begin(op, p, k) EXCEPT !.ops = @ + 1]

\* the call or event left the pool as it was
Unchanged(T) ==
  /\ T.connected = connected /\ T.disconnecting = disconnecting
  /\ T.listening = listening /\ T.loadingNodes = loadingNodes /\ T.dpc = dpc
  /\ T.peers = peers /\ T.pendingOutboundPeers = pendingOutboundPeers
  /\ T.pendingInboundPeers = pendingInboundPeers
  /\ T.nodes = nodes /\ T.db = db /\ T.peer = peer /\ T.waiters = waiters

\* the step takes place unless it needs a socket slot and none is free
Commit(S) ==
  \E R \in {S} : \E T \in {Collect(R)} :
     /\ ~T.full
     /\ T.ops <= MaxOps
     /\ live' = T.live
     /\ connected' = T.connected
     /\ disconnecting' = T.disconnecting
     /\ listening' = T.listening
     /\ loadingNodes' = T.loadingNodes
     /\ dpc' = T.dpc
     /\ peers' = T.peers
     /\ pendingOutboundPeers' = T.pendingOutboundPeers
     /\ pendingInboundPeers' = T.pendingInboundPeers
     /\ nodes' = T.nodes
     /\ db' = T.db
     /\ peer' = T.peer
     /\ waiters' = T.waiters
     /\ ops' = IF Unchanged(T) THEN ops ELSE T.ops
     /\ last' = [T.last EXCEPT !.ret = T.ret]
     /\ hist' = T.hist
     /\ UNCHANGED <<links, config, nodeState, connect, getNodes, reputation, broadcast>>

\* the pools as constructed, before init()
Constructed ==
  /\ connected = [p \in Pools |-> FALSE]
  /\ disconnecting = [p \in Pools |-> FALSE]
  /\ listening = [p \in Pools |-> FALSE]
  /\ loadingNodes = [p \in Pools |-> "none"]
  /\ dpc = [p \in Pools |-> [at |-> "idle", closing |-> {}]]
  /\ peers = [p \in Pools |-> [k \in PubKeys |-> NoPeer]]
  /\ pendingOutboundPeers = [p \in Pools |-> [k \in PubKeys |-> NoPeer]]
  /\ pendingInboundPeers = [p \in Pools |-> {}]
  /\ nodes = [p \in Pools |-> [k \in PubKeys |-> "unknown"]]
  /\ db \in [Pools -> [PubKeys -> {"unknown", "known"}]]
  /\ \A p \in Pools, k \in PubKeys : k = p \/ p \notin live => db[p][k] = "unknown"
  /\ peer = [e \in PeerIds |-> NoRec]
  /\ waiters = [p \in Pools |-> << >>]
  /\ ops = 0
  /\ last = [op |-> "construct", pool |-> 0, key |-> 0, address |-> "none", ret |-> "",
             list |-> {}, closes |-> {}, calls |-> {}, rets |-> {}, events |-> {}]
  /\ hist = [revoke |-> FALSE, dialed |-> {}]

\* the pool makes no broadcast, listens and advertises no address
NoBroadcasts ==
  /\ links = [k \in BroadcastKeys |-> [has |-> FALSE, pairs |-> {}, stalled |-> FALSE]]
  /\ broadcast = NoBroadcast
  /\ config = [listen |-> TRUE, port |-> 8885, detectexternalip |-> FALSE,
               addresses |-> << >>]
  /\ nodeState = [addresses |-> << >>]
  /\ connect = NoConnect
  /\ getNodes = NoGetNodes
  /\ reputation = NoReputation

\* one pool against a remote node with the higher or the lower pub key
Init ==
  /\ \E p \in Pools : live = {p}
  /\ Constructed
  /\ NoBroadcasts

\* a call of Pool.addOutbound from outside the pool (the connect RPC)
AddOutbound(p, k, address, retryConnecting, revoke) ==
  p \in live /\ Commit(addOutbound([Outside("addOutbound", p, k) EXCEPT
                                      !.last.address = address],
                                   p, k, address, retryConnecting, revoke, "caller", FALSE))

\* the dial of an outbound peer reaches the listening server of the target:
\* the target's handleSocket / addInbound / openPeer run up to beginOpen
DialOk(e) ==
  LET r == peer[e]
      t == r.exp
      i == Other(e)
      S0 == Begin("connect", r.pool, t)
      closed == S0.disconnecting[t] \/ ~S0.connected[t]
  IN /\ ~IsInbound(e) /\ r.pc = "dial" /\ r.sock = "open"
     /\ t \in live
     /\ listening[t]
     /\ Commit([S0 EXCEPT
          !.peer[e].pc = "hello", !.peer[e].hs = 1,
          !.peer[i] = [NoRec EXCEPT !.pool = t, !.sock = "open",
                         !.pc = IF closed THEN "done" ELSE "hello",
                         !.hs = IF closed THEN 0 ELSE 1],
          !.pendingInboundPeers[t] = IF closed THEN @ ELSE @ \cup {i},
          !.hist.dialed = @ \cup {r.pool},
          !.ret = IF closed THEN "POOL_CLOSED" ELSE "OK"])

\* the dial fails: it is retried while retryConnecting holds, until the
\* retry period is over
DialFail(e) ==
  LET r == peer[e]
      S0 == Outside("dialFail", r.pool, r.exp)
      code == IF r.retry THEN "CONNECTION_RETRIES_MAX_PERIOD_EXCEEDED"
              ELSE "COULD_NOT_CONNECT"
      S1 == emitClose([S0 EXCEPT !.peer[e].err = code], e)
  IN /\ ~IsInbound(e) /\ r.pc = "dial" /\ r.sock = "open"
     /\ r.exp \in live => ~listening[r.exp]
     /\ Commit([S1 EXCEPT !.ret = code])

\* the end of a socket at a remote node k that runs version v: its Hello and
\* its SessionInitAck are on their way
RemoteEnd(k, v) ==
  [NoRec EXCEPT !.pc = "remote", !.sock = "open", !.key = k, !.ver = v, !.hs = 2]

\* the pub key in the Hello of the other end
HelloKey(o) == IF o.pc = "remote" THEN o.key ELSE o.pool

\* the version in the Hello of the other end; the pools run the same version
HelloVersion(o) == IF o.pc = "remote" THEN o.ver ELSE "ok"

\* the dial of an outbound peer is accepted by a remote node
RemoteAccept(e, v) ==
  LET r == peer[e]
      S0 == Begin("connect", r.pool, r.exp)
  IN /\ ~IsInbound(e) /\ r.pc = "dial" /\ r.sock = "open"
     /\ r.exp \notin live
     /\ Commit([S0 EXCEPT !.peer[e].pc = "hello", !.peer[e].hs = 1,
                          !.peer[Other(e)] = RemoteEnd(r.exp, v),
                          !.ret = "OK"])

\* Pool.handleSocket / addInbound / openPeer up to beginOpen, for a socket
\* that node k, which runs version v, has opened to the server of pool p; the
\* pool itself opens one when it dials an address of its own (as
\* verifyReachability does), and it runs a version it accepts
handleSocket(S, p, k, v) ==
  IF FreeSlots(S) = {} THEN [S EXCEPT !.full = TRUE]
  ELSE
    LET c == NewSlot(S)
        closed == S.disconnecting[p] \/ ~S.connected[p]
    IN [S EXCEPT
          !.peer[Out(c)] = RemoteEnd(k, v),
          !.peer[In(c)] = [NoRec EXCEPT !.pool = p, !.sock = "open",
                             !.pc = IF closed THEN "done" ELSE "hello",
                             !.hs = IF closed THEN 0 ELSE 1],
          !.pendingInboundPeers[p] = IF closed THEN @ ELSE @ \cup {In(c)},
          !.ret = IF closed THEN "POOL_CLOSED" ELSE "OK"]

RemoteDial(p, k, v) ==
  /\ p \in live
  /\ k = p \/ k \notin live
  /\ k = p => v = "ok"
  /\ listening[p]
  /\ Commit(handleSocket(Outside("connection", p, k), p, k, v))

\* openPeer after Peer.beginOpen has returned (the remote Hello has arrived):
\* validatePeer, then completeOpen is started
ValidatePeer(e) ==
  LET r == peer[e]
      o == peer[Other(e)]
      S0 == Begin("beginOpen", r.pool, HelloKey(o))
      S1 == validatePeer([S0 EXCEPT !.peer[e].key = HelloKey(o),
                                    !.peer[e].ver = HelloVersion(o)], e)
  IN /\ r.pc = "hello"
     /\ o.hs >= 1
     /\ \E V \in {S1} :
          Commit(IF V.ret = "OK"
                   THEN [V EXCEPT !.peer[e].pc = "ack", !.peer[e].hs = 2,
                                  !.peer[e].retry = FALSE]
                   ELSE V)

\* Peer.beginOpen returns on a socket that is open
BeginOpenDone(e) == peer[e].sock = "open" /\ ValidatePeer(e)

\* Peer.completeOpen returns (the remote SessionInitAck has arrived);
\* openPeer resolves a duplicate and inserts the peer into peers
\* openPeer without the duplicate resolution
completeOpenDone_NoDuplicateCheck(S, e) ==
  admit([S EXCEPT !.peer[e].hs = 3], e)

\* openPeer with the comparison of the pub keys reversed
completeOpenDone_LowerKeyCloses(S, e) ==
  LET r == S.peer[e]
      p == r.pool
      S1 == [S EXCEPT !.peer[e].hs = 3]
  IN IF S.peers[p][r.key] # NoPeer
       THEN IF p < r.key
              THEN closeAndThrow(S1, e, "AlreadyConnected", "NODE_ALREADY_CONNECTED")
              ELSE [S1 EXCEPT !.peer[e].pc = "dupWait",
                              !.peer[e].waitOn = S.peers[p][r.key],
                              !.waiters[p] = Append(@, e),
                              !.ret = "WAIT"]
       ELSE admit(S1, e)

\* openPeer with the pool of the higher pub key replacing the existing peer
completeOpenDone_HigherKeyReplaces(S, e) ==
  LET r == S.peer[e]
      p == r.pool
      S1 == [S EXCEPT !.peer[e].hs = 3]
  IN IF S.peers[p][r.key] # NoPeer
       THEN IF p > r.key
              THEN admit(S1, e)
              ELSE [S1 EXCEPT !.peer[e].pc = "dupWait",
                              !.peer[e].waitOn = S.peers[p][r.key],
                              !.waiters[p] = Append(@, e),
                              !.ret = "WAIT"]
       ELSE admit(S1, e)

completeOpenDone(S, e) ==
  LET r == S.peer[e]
      p == r.pool
      S1 == [S EXCEPT !.peer[e].hs = 3]
  IN IF S.peers[p][r.key] # NoPeer
       THEN IF p > r.key
              THEN closeAndThrow(S1, e, "AlreadyConnected", "NODE_ALREADY_CONNECTED")
              ELSE [S1 EXCEPT !.peer[e].pc = "dupWait",
                              !.peer[e].waitOn = S.peers[p][r.key],
                              !.waiters[p] = Append(@, e),
                              !.ret = "WAIT"]
       ELSE admit(S1, e)

CompleteOpenDone(e) ==
  LET r == peer[e]
      o == peer[Other(e)]
  IN /\ r.pc = "ack" /\ r.sock = "open"
     /\ o.hs >= 2
     /\ Commit(completeOpenDone(Begin("completeOpen", r.pool, r.key), e))

\* the timer of the duplicate resolution (Peer.STALL_INTERVAL, 30 s) is slow:
\* it fires only once no packet, socket event or continuation is still due
Busy ==
  \/ \E p \in Pools : loadingNodes[p] \in {"loading", "cleared"}
  \/ \E e \in PeerIds :
       LET r == peer[e]
           o == peer[Other(e)]
       IN \/ r.pc = "dial" /\ r.sock = "open" /\ (listening[r.exp] \/ ~r.retry)
          \/ r.pc = "hello" /\ r.sock = "open" /\ o.hs >= 1
          \/ r.pc = "ack" /\ r.sock = "open" /\ o.hs >= 2
          \/ r.hop # "none"
          \/ r.sock = "closing"
          \/ r.pc # "remote" /\ r.sock = "open" /\ o.sock \in {"closing", "closed"}

\* the timer of the duplicate resolution resolves like a 'close' of the
\* existing peer
dupTimeout_Admits(S, e) ==
  LET p == S.peer[e].pool
      S1 == [S EXCEPT !.waiters[p] = SelectSeq(@, LAMBDA w : w # e),
                      !.peer[e].waitOn = 0]
  IN admit(S1, e)

\* the existing peer did not close within STALL_INTERVAL
dupTimeout(S, e) ==
  LET p == S.peer[e].pool
      S1 == [S EXCEPT !.waiters[p] = SelectSeq(@, LAMBDA w : w # e),
                      !.peer[e].waitOn = 0]
  IN closeAndThrow(S1, e, "AlreadyConnected", "NODE_ALREADY_CONNECTED")

DupTimeout(e) ==
  /\ peer[e].pc = "dupWait"
  /\ ~Busy
  /\ Commit(dupTimeout(Begin("dupTimeout", peer[e].pool, peer[e].key), e))

\* NodeList.createNode / updateAddresses
createOrUpdateNode(S, p, k) ==
  IF has(S, p, k) THEN S
  ELSE [S EXCEPT !.nodes[p][k] = "known",
                 !.db[p][k] = IF @ = "unknown" THEN "known" ELSE @]

\* lastAddress is given for inbound peers too
handleOpenedPeerDone_LastAddressAlways(S, e, match) ==
  LET r == S.peer[e]
      S1 == [S EXCEPT !.last.events = @ \cup {<<"GetNodes", e, r.key>>}]
      S2 == createOrUpdateNode(S1, r.pool, r.key)
      written ==
        {<<IF has(S1, r.pool, r.key) THEN "updateAddresses" ELSE "createNode",
           e, r.key>>,
         <<"lastAddress", e, r.key>>}
        \cup (IF ~IsInbound(e) /\ match THEN {<<"lastConnected", e, r.key>>} ELSE {})
  IN [S2 EXCEPT !.peer[e].hop = "none",
                !.last.events = @ \cup written \cup {<<"peer.active", e, r.key>>},
                !.ret = "OK"]

\* Pool.handleOpenedPeer completes (GetNodes sent, node record written) and
\* peer.active is emitted; match: an address that the peer advertises is the
\* address connected to
handleOpenedPeerDone(S, e, match) ==
  LET r == S.peer[e]
      S1 == [S EXCEPT !.last.events = @ \cup {<<"GetNodes", e, r.key>>}]
      S2 == createOrUpdateNode(S1, r.pool, r.key)
      written ==
        {<<IF has(S1, r.pool, r.key) THEN "updateAddresses" ELSE "createNode",
           e, r.key>>}
        \cup (IF IsInbound(e) THEN {} ELSE {<<"lastAddress", e, r.key>>})
        \cup (IF ~IsInbound(e) /\ match THEN {<<"lastConnected", e, r.key>>} ELSE {})
  IN [S2 EXCEPT !.peer[e].hop = "none",
                !.last.events = @ \cup written \cup {<<"peer.active", e, r.key>>},
                !.ret = "OK"]

HandleOpenedPeerDone(e, match) ==
  LET r == peer[e]
      S0 == Begin("peer.active", r.pool, r.key)
  IN /\ r.hop = "pending"
     /\ r.sock = "open"
     /\ Commit(handleOpenedPeerDone(S0, e, match))

\* Pool.handleOpenedPeer fails: GetNodes cannot be sent on a closed socket
HandleOpenedPeerFail(e) ==
  LET r == peer[e]
      S0 == Begin("handleOpenedPeerFail", r.pool, r.key)
  IN /\ r.hop = "pending"
     /\ r.sock # "open"
     /\ Commit([S0 EXCEPT !.peer[e].hop = "none", !.ret = "NOT_CONNECTED"])

\* the Disconnecting packet has been sent: the socket is destroyed and the
\* peer emits 'close'
CloseEvent(e) ==
  /\ peer[e].sock = "closing"
  /\ Commit(emitClose(Begin("close", peer[e].pool, peer[e].key), e))

\* the remote end has closed the socket: the Disconnecting packet, if one was
\* sent, sets recvDisconnectionReason, then the peer closes
RecvClose(e) ==
  LET r == peer[e]
      o == peer[Other(e)]
      S0 == Begin("remoteClose", r.pool, r.key)
  IN /\ r.sock = "open"
     /\ o.sock \in {"closing", "closed"}
     /\ o.pc # "remote"
     /\ Commit(emitClose([S0 EXCEPT !.peer[e].recv = o.sent], e))

\* the reasons a remote node gives when it closes a socket
RemoteReasons == {NoReason, "Shutdown", "AlreadyConnected", "ResponseStalling", "Banned"}

\* a remote node has closed the socket, with or without a Disconnecting packet
RemoteClose(e, reason) ==
  LET r == peer[e]
      S0 == Outside("remoteClose", r.pool, r.key)
  IN /\ r.sock = "open"
     /\ peer[Other(e)].pc = "remote"
     /\ Commit(emitClose([S0 EXCEPT !.peer[e].recv = reason], e))

\* nothing was received from an opened peer for STALL_INTERVAL: the peer
\* closes itself
Stall(e) ==
  /\ peer[e].sock = "open"
  /\ peer[e].pc # "remote"
  /\ peer[e].hs = 3
  /\ Commit(peerClose(Outside("stall", peer[e].pool, peer[e].key), e, "ResponseStalling"))

\* ------------------------------------------------------------------------
\* Ban and unban
\* ------------------------------------------------------------------------
\* the node.ban listener of Pool.bindNodeList
onNodeBan(S, p, k) ==
  LET x == S.peers[p][k] IN
  IF x # NoPeer THEN peerClose(S, x, "Banned") ELSE S

\* Pool.banNode with NodeList.ban, which emits node.ban
banNode(S, p, k) ==
  IF isBanned(S, p, k) THEN Throw(S, "NODE_ALREADY_BANNED")
  ELSE IF ~has(S, p, k) THEN Throw(S, "NODE_NOT_FOUND")
  ELSE onNodeBan([S EXCEPT !.nodes[p][k] = "banned", !.db[p][k] = "banned",
                           !.ret = "OK"], p, k)

BanNode(p, k) == p \in live /\ k # p /\ Commit(banNode(Outside("banNode", p, k), p, k))

\* Pool.unbanNode with NodeList.unBan
unbanNode(S, p, k, reconnect) ==
  IF isBanned(S, p, k)
    THEN LET S1 == [S EXCEPT !.nodes[p][k] = "known", !.db[p][k] = "known"]
             S2 == IF reconnect THEN tryConnectNode(S1, p, k, FALSE, FALSE) ELSE S1
         IN [S2 EXCEPT !.ret = "OK"]
    ELSE Throw(S, "NODE_NOT_BANNED")

UnbanNode(p, k, reconnect) ==
  p \in live /\ k # p /\ Commit(unbanNode(Outside("unbanNode", p, k), p, k, reconnect))

\* ------------------------------------------------------------------------
\* Start-up and shutdown
\* ------------------------------------------------------------------------
\* Pool.init: the server listens, nodes.load() is started
PoolInit(p) ==
  /\ p \in live
  /\ ~connected[p]
  /\ Commit([Outside("init", p, 0) EXCEPT
       !.listening[p] = TRUE,
       !.loadingNodes[p] = "loading",
       !.connected[p] = TRUE])

\* connectNodes without the check of the addresses
RECURSIVE connectNodes_NoAddressCheck(_, _, _, _, _, _, _)
connectNodes_NoAddressCheck(S, p, k, list, allowKnown, retryConnecting, bulk) ==
  IF k \notin PubKeys THEN S
  ELSE
    LET isNotUs == k # p
        isAllowed == allowKnown \/ ~has(S, p, k)
        S1 == IF isNotUs /\ isAllowed /\ ~S.full
                THEN tryConnectNode(S, p, k, retryConnecting, bulk) ELSE S
    IN connectNodes_NoAddressCheck(S1, p, k + 1, list, allowKnown, retryConnecting, bulk)

\* Pool.connectNodes over the nodes of the collection list, from key k on;
\* every node of a collection has an address
RECURSIVE connectNodes(_, _, _, _, _, _, _)
connectNodes(S, p, k, list, allowKnown, retryConnecting, bulk) ==
  IF k \notin PubKeys THEN S
  ELSE
    LET isNotUs == k # p
        hasAddresses == k \in list
        isAllowed == allowKnown \/ ~has(S, p, k)
        S1 == IF isNotUs /\ hasAddresses /\ isAllowed /\ ~S.full
                THEN tryConnectNode(S, p, k, retryConnecting, bulk) ELSE S
    IN connectNodes(S1, p, k + 1, list, allowKnown, retryConnecting, bulk)

\* the nodes of the NodeList of pool p
NodeListOf(S, p) == {k \in PubKeys : S.nodes[p][k] # "unknown"}

\* Pool.handlePacket for a Nodes packet: connectNodes(nodes) with the defaults
\* allowKnown = true and retryConnecting = false.  The packet comes from an
\* opened peer, which may be the peer of a node that is not among PubKeys.
NodesPacket(p, list) ==
  /\ p \in live
  /\ \/ connected[p]
     \/ \E e \in PeerIds : peer[e].pool = p /\ peer[e].hs = 3 /\ peer[e].sock = "open"
  /\ Commit([connectNodes([Outside("nodes", p, 0) EXCEPT !.last.list = list],
                          p, 1, list, TRUE, FALSE, FALSE)
               EXCEPT !.ret = "OK"])

\* Pool.closePendingConnections and Pool.closePeers over the peers from e on
RECURSIVE closePendingConnections(_, _, _)
closePendingConnections(S, p, e) ==
  IF e \notin PeerIds THEN S
  ELSE
    LET pending == \/ \E k \in PubKeys : S.pendingOutboundPeers[p][k] = e
                   \/ e \in S.pendingInboundPeers[p]
    IN closePendingConnections(IF pending THEN peerClose(S, e, NoReason) ELSE S,
                               p, e + 1)

\* the peers are closed but disconnect() does not wait for them
RECURSIVE closePeers_NotAwaited(_, _, _)
closePeers_NotAwaited(S, p, k) ==
  IF k \notin PubKeys THEN S
  ELSE
    LET x == S.peers[p][k] IN
    closePeers_NotAwaited(IF x # NoPeer THEN peerClose(S, x, "Shutdown") ELSE S,
                          p, k + 1)

RECURSIVE closePeers(_, _, _)
closePeers(S, p, k) ==
  IF k \notin PubKeys THEN S
  ELSE
    LET x == S.peers[p][k]
        S1 == IF x # NoPeer THEN peerClose(S, x, "Shutdown") ELSE S
        S2 == IF x # NoPeer /\ S.peer[x].sock = "open"
                THEN [S1 EXCEPT !.dpc[p].closing = @ \cup {x}] ELSE S1
    IN closePeers(S2, p, k + 1)

\* Pool.disconnect from the Promise.all on
disconnectClose(S, p) ==
  LET S1 == [S EXCEPT !.listening[p] = FALSE, !.dpc[p].at = "awaitClose"]
      S2 == closePendingConnections(S1, p, 1)
  IN closePeers(S2, p, 1)

\* Pool.disconnect: it waits for nodes.load() when that is still running
disconnect(S, p) ==
  LET S1 == [S EXCEPT !.disconnecting[p] = TRUE] IN
  IF S.loadingNodes[p] = "loading"
    THEN [S1 EXCEPT !.dpc[p].at = "awaitLoading"]
    ELSE disconnectClose(S1, p)

Disconnect(p) ==
  /\ connected[p]
  /\ dpc[p].at = "idle"
  /\ Commit(disconnect(Outside("disconnect", p, 0), p))

\* nodes.load() resolves: the start-up connections are made unless the pool is
\* disconnecting, then a disconnect() that waited for the load goes on
nodesLoaded(S, p) ==
  LET S1 == [S EXCEPT !.nodes[p] =
               [k \in PubKeys |-> IF S.db[p][k] # "unknown" THEN S.db[p][k] ELSE @[k]],
               !.loadingNodes[p] = IF @ = "loading" THEN "connecting" ELSE @]
      count == Cardinality(NodeListOf(S1, p))
      S2 == IF count > 0 /\ ~S1.disconnecting[p]
              THEN connectNodes(S1, p, 1, NodeListOf(S1, p), TRUE, TRUE, TRUE) ELSE S1
      S3 == IF BulkPending(S2, p) /\ ~BulkPending(S, p)
              THEN S2 ELSE [S2 EXCEPT !.loadingNodes[p] = "none"]
  IN IF S.dpc[p].at = "awaitLoading" THEN disconnectClose(S3, p) ELSE S3

NodesLoaded(p) ==
  /\ loadingNodes[p] \in {"loading", "cleared"}
  /\ Commit(nodesLoaded(Begin("nodesLoaded", p, 0), p))

\* every connection the server accepted has ended
serverClosed(S, p) ==
  \A e \in PeerIds :
    IsInbound(e) /\ S.peer[e].pool = p => S.peer[e].sock = "closed"

\* Pool.disconnect after the Promise.all
DisconnectDone(p) ==
  /\ dpc[p].at = "awaitClose"
  /\ dpc[p].closing = {}
  /\ serverClosed(Cur, p)
  /\ Commit([Begin("disconnected", p, 0) EXCEPT
       !.connected[p] = FALSE,
       !.disconnecting[p] = FALSE,
       !.dpc[p].at = "idle"])

\* ------------------------------------------------------------------------
\* The two pools with every handler
\* ------------------------------------------------------------------------
Next ==
  \/ \E p \in Pools : PoolInit(p)
  \/ \E p \in Pools : NodesLoaded(p)
  \/ \E p \in Pools, k \in PubKeys, retry \in BOOLEAN, revoke \in BOOLEAN :
       AddOutbound(p, k, "node", retry, revoke)
  \/ \E e \in PeerIds : RemoteAccept(e, "ok")
  \/ \E p \in Pools : \E k \in PubKeys \ {p} : RemoteDial(p, k, "ok")
  \/ \E e \in PeerIds : DialFail(e)
  \/ \E e \in PeerIds : BeginOpenDone(e)
  \/ \E e \in PeerIds : CompleteOpenDone(e)
  \/ \E e \in PeerIds : DupTimeout(e)
  \/ \E e \in PeerIds : HandleOpenedPeerDone(e, TRUE)
  \/ \E e \in PeerIds : HandleOpenedPeerFail(e)
  \/ \E e \in PeerIds : CloseEvent(e)
  \/ \E e \in PeerIds, reason \in RemoteReasons : RemoteClose(e, reason)
  \/ \E e \in PeerIds : Stall(e)
  \/ \E p \in Pools, k \in PubKeys : BanNode(p, k)
  \/ \E p \in Pools, k \in PubKeys, reconnect \in BOOLEAN : UnbanNode(p, k, reconnect)
  \/ \E p \in Pools : Disconnect(p)
  \/ \E p \in Pools : DisconnectDone(p)

Spec == Init /\ [][Next]_vars

\* ------------------------------------------------------------------------
\* Two pools that connect to each other
\* ------------------------------------------------------------------------
InitDup ==
  /\ live = Pools
  /\ Constructed
  /\ NoBroadcasts

NextDup ==
  \/ \E p \in Pools : PoolInit(p)
  \/ \E p \in Pools : NodesLoaded(p)
  \/ \E p \in Pools, k \in PubKeys : AddOutbound(p, k, "node", FALSE, FALSE)
  \/ \E e \in PeerIds : DialOk(e)
  \/ \E e \in PeerIds : DialFail(e)
  \/ \E e \in PeerIds : BeginOpenDone(e)
  \/ \E e \in PeerIds : CompleteOpenDone(e)
  \/ \E e \in PeerIds : DupTimeout(e)
  \/ \E e \in PeerIds : HandleOpenedPeerDone(e, TRUE)
  \/ \E e \in PeerIds : HandleOpenedPeerFail(e)
  \/ \E e \in PeerIds : CloseEvent(e)
  \/ \E e \in PeerIds : RecvClose(e)

SpecDup == InitDup /\ [][NextDup]_vars

\* ------------------------------------------------------------------------
\* One pool that opens peers: the nodes that connect run any version, the
\* pool is given any address, it also connects to itself, and it receives
\* Nodes packets with any list of nodes
\* ------------------------------------------------------------------------
\* the calls from outside and the events caused by the remote nodes are
\* limited to MaxOpenOps
NextOpen ==
  \/ ops < MaxOpenOps /\ \E p \in Pools : PoolInit(p)
  \/ \E p \in Pools : NodesLoaded(p)
  \/ ops < MaxOpenOps /\ \E p \in Pools, k \in PubKeys, address \in Addresses :
                           AddOutbound(p, k, address, FALSE, FALSE)
  \/ \E e \in PeerIds, v \in Versions : RemoteAccept(e, v)
  \/ ops < MaxOpenOps /\ \E p \in Pools, k \in PubKeys, v \in Versions :
                           RemoteDial(p, k, v)
  \/ ops < MaxOpenOps /\ \E e \in PeerIds : DialFail(e)
  \/ \E e \in PeerIds : BeginOpenDone(e)
  \/ \E e \in PeerIds : CompleteOpenDone(e)
  \/ \E e \in PeerIds : DupTimeout(e)
  \/ \E e \in PeerIds, match \in BOOLEAN : HandleOpenedPeerDone(e, match)
  \/ \E e \in PeerIds : HandleOpenedPeerFail(e)
  \/ \E e \in PeerIds : CloseEvent(e)
  \/ ops < MaxOpenOps /\ \E e \in PeerIds : RemoteClose(e, NoReason)
  \/ ops < MaxOpenOps /\ \E p \in Pools, list \in SUBSET PubKeys : NodesPacket(p, list)
  \/ ops < MaxOpenOps /\ \E e \in PeerIds : Stall(e)
  \/ ops < MaxOpenOps /\ \E p \in Pools : Disconnect(p)
  \/ \E p \in Pools : DisconnectDone(p)

SpecOpen == Init /\ [][NextOpen]_vars

\* ------------------------------------------------------------------------
\* One pool that has started and opens peers, with an event loop that runs
\* what is due
\* ------------------------------------------------------------------------
\* the pool after init() with an empty node database: it is connected and
\* listens, nodes.load() has resolved and has made no connection
InitStarted ==
  /\ \E p \in Pools :
       /\ live = {p}
       /\ connected = [q \in Pools |-> q = p]
       /\ listening = [q \in Pools |-> q = p]
       /\ last = [op |-> "nodesLoaded", pool |-> p, key |-> 0, address |-> "none",
                  ret |-> "", list |-> {}, closes |-> {}, calls |-> {}, rets |-> {},
                  events |-> {}]
  /\ disconnecting = [p \in Pools |-> FALSE]
  /\ loadingNodes = [p \in Pools |-> "none"]
  /\ dpc = [p \in Pools |-> [at |-> "idle", closing |-> {}]]
  /\ peers = [p \in Pools |-> [k \in PubKeys |-> NoPeer]]
  /\ pendingOutboundPeers = [p \in Pools |-> [k \in PubKeys |-> NoPeer]]
  /\ pendingInboundPeers = [p \in Pools |-> {}]
  /\ nodes = [p \in Pools |-> [k \in PubKeys |-> "unknown"]]
  /\ db = [p \in Pools |-> [k \in PubKeys |-> "unknown"]]
  /\ peer = [e \in PeerIds |-> NoRec]
  /\ waiters = [p \in Pools |-> << >>]
  /\ ops = 0
  /\ hist = [revoke |-> FALSE, dialed |-> {}]
  /\ NoBroadcasts

\* what the event loop runs by itself once it is due: the outcome of a dial,
\* a received packet, a socket event, a continuation, the timer of the
\* duplicate resolution
Scheduled ==
  \/ \E e \in PeerIds : RemoteAccept(e, "ok")
  \/ \E e \in PeerIds : BeginOpenDone(e)
  \/ \E e \in PeerIds : CompleteOpenDone(e)
  \/ \E e \in PeerIds : DupTimeout(e)
  \/ \E e \in PeerIds : HandleOpenedPeerDone(e, TRUE)
  \/ \E e \in PeerIds : HandleOpenedPeerFail(e)
  \/ \E e \in PeerIds : CloseEvent(e)

\* the calls from outside and the events caused by the remote nodes are
\* limited to MaxOpenOps
NextStarted ==
  \/ ops < MaxOpenOps /\ \E p \in Pools, k \in PubKeys :
                           AddOutbound(p, k, "node", FALSE, FALSE)
  \/ ops < MaxOpenOps /\ \E p \in Pools, k \in PubKeys : RemoteDial(p, k, "ok")
  \/ ops < MaxOpenOps /\ \E e \in PeerIds : DialFail(e)
  \/ ops < MaxOpenOps /\ \E e \in PeerIds : RemoteClose(e, NoReason)
  \/ ops < MaxOpenOps /\ \E e \in PeerIds : Stall(e)
  \/ Scheduled

SpecStarted == InitStarted /\ [][NextStarted]_vars /\ WF_vars(Scheduled)

\* ------------------------------------------------------------------------
\* Pool.broadcastOrder and Pool.broadcastOrderInvalidation
\* ------------------------------------------------------------------------
\* Peer.isPairActive
isPairActive(r, pairId) == pairId \in r.pairs

\* the sendPacket of every peer is awaited before forEach goes on: the
\* broadcast ends at the first send that never completes
RECURSIVE forEachPeer_Awaited(_, _, _)
forEachPeer_Awaited(B, L, k) ==
  IF k \notin BroadcastKeys THEN [B EXCEPT !.returned = TRUE]
  ELSE
    LET r == L[k]
        send == /\ r.has
                /\ B.nodeToExclude = NoNode \/ k # B.nodeToExclude
                /\ isPairActive(r, B.pairId)
        B1 == IF send THEN [B EXCEPT !.sent = @ \cup {k}, !.waiting = @ \cup {k}]
              ELSE B
    IN IF send /\ r.stalled THEN B1 ELSE forEachPeer_Awaited(B1, L, k + 1)

\* peers.forEach over an async callback, from key k on: the callback of
\* every peer runs up to its await of sendPacket, which suspends only this
\* callback, and forEach goes on to the next peer
RECURSIVE forEachPeer(_, _, _)
forEachPeer(B, L, k) ==
  IF k \notin BroadcastKeys THEN [B EXCEPT !.returned = TRUE]
  ELSE
    LET r == L[k]
        send == /\ r.has
                /\ B.nodeToExclude = NoNode \/ k # B.nodeToExclude
                /\ isPairActive(r, B.pairId)
    IN forEachPeer(IF send THEN [B EXCEPT !.sent = @ \cup {k},
                                          !.waiting = @ \cup {k}]
                           ELSE B,
                   L, k + 1)

broadcastOrder(B, L, pairId) ==
  forEachPeer([op |-> "broadcastOrder", pairId |-> pairId, nodeToExclude |-> NoNode,
               sent |-> {}, returned |-> FALSE, waiting |-> B.waiting], L, 1)

\* the node to exclude is not looked at
broadcastOrderInvalidation_NoExclude(B, L, pairId, nodeToExclude) ==
  [forEachPeer([op |-> "broadcastOrderInvalidation", pairId |-> pairId,
                nodeToExclude |-> NoNode,
                sent |-> {}, returned |-> FALSE, waiting |-> B.waiting], L, 1)
     EXCEPT !.nodeToExclude = nodeToExclude]

broadcastOrderInvalidation(B, L, pairId, nodeToExclude) ==
  forEachPeer([op |-> "broadcastOrderInvalidation", pairId |-> pairId,
               nodeToExclude |-> nodeToExclude,
               sent |-> {}, returned |-> FALSE, waiting |-> B.waiting], L, 1)

BroadcastOrder(pairId) ==
  /\ broadcast' = broadcastOrder(broadcast, links, pairId)
  /\ UNCHANGED <<poolVars, links, config, nodeState, connect, getNodes, reputation>>

BroadcastOrderInvalidation(pairId, nodeToExclude) ==
  /\ broadcast' = broadcastOrderInvalidation(broadcast, links, pairId, nodeToExclude)
  /\ UNCHANGED <<poolVars, links, config, nodeState, connect, getNodes, reputation>>

\* a sendPacket that a broadcast called completes
SendDone(k) ==
  /\ k \in broadcast.waiting
  /\ ~links[k].stalled
  /\ broadcast' = [broadcast EXCEPT !.waiting = @ \ {k}]
  /\ UNCHANGED <<poolVars, links, config, nodeState, connect, getNodes, reputation>>

\* a connected pool with any peers, of which any may have stalled
InitBroadcast ==
  /\ live = {1}
  /\ Constructed
  /\ db = [p \in Pools |-> [k \in PubKeys |-> "unknown"]]
  /\ links \in [BroadcastKeys ->
                  [has : BOOLEAN, pairs : SUBSET PairIds, stalled : BOOLEAN]]
  /\ broadcast = NoBroadcast
  /\ config = [listen |-> TRUE, port |-> 8885, detectexternalip |-> FALSE,
               addresses |-> << >>]
  /\ nodeState = [addresses |-> << >>]
  /\ connect = NoConnect
  /\ getNodes = NoGetNodes
  /\ reputation = NoReputation

NextBroadcast ==
  \/ \E pairId \in PairIds : BroadcastOrder(pairId)
  \/ \E pairId \in PairIds, nodeToExclude \in BroadcastKeys \cup {NoNode} :
       BroadcastOrderInvalidation(pairId, nodeToExclude)
  \/ \E k \in BroadcastKeys : SendDone(k)

SpecBroadcast == InitBroadcast /\ [][NextBroadcast]_vars

\* ------------------------------------------------------------------------
\* The advertised addresses: the constructor and detectExternalIpAddress
\* ------------------------------------------------------------------------
\* addressUtils.fromString(addressString, port): the port of the string, or
\* the given port when the string has none
fromString(addressString, port) ==
  [host |-> addressString.host,
   port |-> IF addressString.port = NoPort THEN port ELSE addressString.port]

\* the constructor: every configured address is pushed when the pool listens
constructor(c) ==
  [addresses |->
     IF c.listen
       THEN [i \in 1..Len(c.addresses) |-> fromString(c.addresses[i], c.port)]
       ELSE << >>]

\* Pool.detectExternalIpAddress: the external IP is pushed with the listen
\* port unless an address has it as host; an error is logged
detectExternalIpAddress(N, listenPort, externalIp) ==
  IF externalIp = "error" THEN N
  ELSE IF \E i \in 1..Len(N.addresses) : N.addresses[i].host = externalIp THEN N
  ELSE [N EXCEPT !.addresses = Append(@, [host |-> externalIp, port |-> listenPort])]

\* Pool.init of a pool that listens and detects its external IP; it runs
\* again when the pool is started again after a disconnect
DetectExternalIpAddress(externalIp) ==
  /\ config.listen /\ config.detectexternalip
  /\ nodeState' = detectExternalIpAddress(nodeState, config.port, externalIp)
  /\ UNCHANGED <<poolVars, links, config, connect, getNodes, reputation, broadcast>>

\* a pool as constructed with any configuration
InitAddresses ==
  /\ live = {1}
  /\ Constructed
  /\ db = [p \in Pools |-> [k \in PubKeys |-> "unknown"]]
  /\ links = [k \in BroadcastKeys |-> [has |-> FALSE, pairs |-> {}, stalled |-> FALSE]]
  /\ broadcast = NoBroadcast
  /\ config \in Configs
  /\ nodeState = constructor(config)
  /\ connect = NoConnect
  /\ getNodes = NoGetNodes
  /\ reputation = NoReputation

NextAddresses == \E externalIp \in ExternalIps : DetectExternalIpAddress(externalIp)

SpecAddresses == InitAddresses /\ [][NextAddresses]_vars

\* ------------------------------------------------------------------------
\* Pool.validatePeer on any peer and any pool
\* ------------------------------------------------------------------------
\* the peer that holds the second socket has received the Hello of node k,
\* which runs version v, and its socket is open or has been destroyed since;
\* the pool is connected or not, node k is unknown, known or banned, and a
\* peer of node k is in peers or not.  A Hello with the own pub key is the
\* pool's own, with its own version.
InitValidate ==
  \E p \in Pools, k \in PubKeys, v \in Versions, isConnected \in BOOLEAN,
     node \in {"unknown", "known", "banned"}, hasPeer \in BOOLEAN,
     sock \in {"open", "closed"} :
    /\ k = p => v = "ok" /\ node = "unknown" /\ ~hasPeer
    /\ live = {p}
    /\ connected = [q \in Pools |-> q = p /\ isConnected]
    /\ listening = [q \in Pools |-> q = p /\ isConnected]
    /\ disconnecting = [q \in Pools |-> FALSE]
    /\ loadingNodes = [q \in Pools |-> "none"]
    /\ dpc = [q \in Pools |-> [at |-> "idle", closing |-> {}]]
    /\ peers = [q \in Pools |-> [j \in PubKeys |->
                  IF q = p /\ j = k /\ hasPeer THEN In(1) ELSE NoPeer]]
    /\ pendingOutboundPeers = [q \in Pools |-> [j \in PubKeys |-> NoPeer]]
    /\ pendingInboundPeers = [q \in Pools |-> IF q = p THEN {In(2)} ELSE {}]
    /\ nodes = [q \in Pools |-> [j \in PubKeys |->
                  IF q = p /\ j = k THEN node ELSE "unknown"]]
    /\ db = nodes
    /\ peer = [e \in PeerIds |->
                 IF e = Out(1) /\ hasPeer THEN [RemoteEnd(k, "ok") EXCEPT !.hs = 3]
                 ELSE IF e = In(1) /\ hasPeer
                   THEN [NoRec EXCEPT !.pool = p, !.pc = "done", !.sock = "open",
                                      !.key = k, !.ver = "ok", !.active = TRUE,
                                      !.hs = 3]
                 ELSE IF e = Out(2) THEN RemoteEnd(k, v)
                 ELSE IF e = In(2)
                   THEN [NoRec EXCEPT !.pool = p, !.pc = "hello", !.sock = sock,
                                      !.hs = 1]
                 ELSE NoRec]
    /\ waiters = [q \in Pools |-> << >>]
    /\ ops = 0
    /\ last = [op |-> "connection", pool |-> p, key |-> k, address |-> "none",
               ret |-> "OK", list |-> {}, closes |-> {}, calls |-> {}, rets |-> {},
               events |-> {}]
    /\ hist = [revoke |-> FALSE, dialed |-> {}]
    /\ NoBroadcasts

NextValidate ==
  \/ \E e \in PeerIds : ValidatePeer(e)
  \/ \E e \in PeerIds : CloseEvent(e)

SpecValidate == InitValidate /\ [][NextValidate]_vars

\* ------------------------------------------------------------------------
\* Pool.tryConnectNode on a node with any addresses; every addOutbound call
\* it makes succeeds or throws
\* ------------------------------------------------------------------------
\* addressUtils.areEqual: host and port are equal
areEqual(a, b) == a.host = b.host /\ a.port = b.port

\* the order of addressUtils.sortByLastConnected: the later lastConnected
\* first, the addresses without one last
isBefore(a, b) ==
  /\ a.lastConnected # 0
  /\ b.lastConnected = 0 \/ a.lastConnected > b.lastConnected

\* addressUtils.sortByLastConnected: a sorted copy of the addresses, those
\* of equal lastConnected in the order they had
RECURSIVE sortByLastConnected(_)
sortByLastConnected(addresses) ==
  IF addresses = << >> THEN << >>
  ELSE LET sorted == sortByLastConnected(Tail(addresses))
           a == Head(addresses)
           n == Cardinality({j \in 1..Len(sorted) : isBefore(sorted[j], a)})
       IN SubSeq(sorted, 1, n) \o <<a>> \o SubSeq(sorted, n + 1, Len(sorted))

\* Pool.tryConnectWithLastAddress up to its await: addOutbound(lastAddress)
\* is called, or false is returned when the node has no lastAddress
tryConnectWithLastAddress(C, retryConnecting) ==
  IF C.node.lastAddress = NoAddress THEN [C EXCEPT !.pc = "false"]
  ELSE [C EXCEPT !.pc = IF retryConnecting THEN "final" ELSE "last",
                 !.attempts = Append(@, [address |-> C.node.lastAddress,
                                         retryConnecting |-> retryConnecting])]

\* the loop of tryConnectWithAdvertisedAddresses never skips the lastAddress
RECURSIVE tryConnectWithAdvertisedAddresses_NoSkip(_, _)
tryConnectWithAdvertisedAddresses_NoSkip(C, i) ==
  IF i > Len(C.sortedAddresses) THEN [C EXCEPT !.pc = "false"]
  ELSE [C EXCEPT !.pc = "advertised", !.i = i,
                 !.attempts = Append(@, [address |-> C.sortedAddresses[i],
                                         retryConnecting |-> FALSE])]

\* the loop of Pool.tryConnectWithAdvertisedAddresses from index i on, up to
\* its await: addOutbound is called on the next address that is not the
\* lastAddress, or false is returned at the end of the list
RECURSIVE tryConnectWithAdvertisedAddresses(_, _)
tryConnectWithAdvertisedAddresses(C, i) ==
  IF i > Len(C.sortedAddresses) THEN [C EXCEPT !.pc = "false"]
  ELSE IF /\ C.node.lastAddress # NoAddress
          /\ areEqual(C.sortedAddresses[i], C.node.lastAddress)
    THEN tryConnectWithAdvertisedAddresses(C, i + 1)
  ELSE [C EXCEPT !.pc = "advertised", !.i = i,
                 !.attempts = Append(@, [address |-> C.sortedAddresses[i],
                                         retryConnecting |-> FALSE])]

\* Pool.tryConnectNode after tryConnectWithAdvertisedAddresses has returned
\* false, with the final attempt made whether it was requested or not
afterAdvertisedAddresses_AlwaysRetries(C) ==
  LET C1 == tryConnectWithLastAddress(C, TRUE)
  IN IF C1.pc = "false" THEN [C1 EXCEPT !.pc = "done"] ELSE C1

\* Pool.tryConnectNode after tryConnectWithAdvertisedAddresses has returned
\* false
afterAdvertisedAddresses(C) ==
  IF C.retryConnecting
    THEN LET C1 == tryConnectWithLastAddress(C, TRUE)
         IN IF C1.pc = "false" THEN [C1 EXCEPT !.pc = "done"] ELSE C1
    ELSE [C EXCEPT !.pc = "done"]

\* Pool.tryConnectNode after tryConnectWithLastAddress has returned false:
\* tryConnectWithAdvertisedAddresses up to its first await
afterLastAddress(C) ==
  LET C1 == tryConnectWithAdvertisedAddresses(
              [C EXCEPT !.sortedAddresses = sortByLastConnected(C.node.addresses)], 1)
  IN IF C1.pc = "false" THEN afterAdvertisedAddresses(C1) ELSE C1

\* Pool.tryConnectNode up to its first await
TryConnectNode ==
  /\ connect.pc = "idle"
  /\ connect' = LET C1 == tryConnectWithLastAddress(connect, FALSE)
                IN IF C1.pc = "false" THEN afterLastAddress(C1) ELSE C1
  /\ UNCHANGED <<poolVars, links, config, nodeState, getNodes, reputation, broadcast>>

\* the addOutbound call that tryConnectNode awaits returns: true is returned
\* and tryConnectNode makes no other call
AddOutboundResolves ==
  /\ connect.pc \in {"last", "advertised", "final"}
  /\ connect' = [connect EXCEPT !.pc = "done", !.results = Append(@, TRUE)]
  /\ UNCHANGED <<poolVars, links, config, nodeState, getNodes, reputation, broadcast>>

\* the addOutbound call that tryConnectNode awaits throws: the error is
\* caught and tryConnectNode goes on
AddOutboundThrows ==
  /\ connect.pc \in {"last", "advertised", "final"}
  /\ connect' =
       LET C == [connect EXCEPT !.results = Append(@, FALSE)]
       IN IF C.pc = "last" THEN afterLastAddress(C)
          ELSE IF C.pc = "advertised"
            THEN LET C1 == tryConnectWithAdvertisedAddresses(C, C.i + 1)
                 IN IF C1.pc = "false" THEN afterAdvertisedAddresses(C1) ELSE C1
          ELSE [C EXCEPT !.pc = "done"]
  /\ UNCHANGED <<poolVars, links, config, nodeState, getNodes, reputation, broadcast>>

\* tryConnectNode is about to be called with any node and any retryConnecting
InitConnect ==
  /\ live = {1}
  /\ Constructed
  /\ db = [p \in Pools |-> [k \in PubKeys |-> "unknown"]]
  /\ links = [k \in BroadcastKeys |-> [has |-> FALSE, pairs |-> {}, stalled |-> FALSE]]
  /\ broadcast = NoBroadcast
  /\ config = [listen |-> TRUE, port |-> 8885, detectexternalip |-> FALSE,
               addresses |-> << >>]
  /\ nodeState = [addresses |-> << >>]
  /\ \E node \in NodeConnectionInfos, retryConnecting \in BOOLEAN :
       connect = [NoConnect EXCEPT !.node = node,
                                   !.retryConnecting = retryConnecting,
                                   !.pc = "idle"]
  /\ getNodes = NoGetNodes
  /\ reputation = NoReputation

NextConnect ==
  \/ TryConnectNode
  \/ AddOutboundResolves
  \/ AddOutboundThrows

SpecConnect == InitConnect /\ [][NextConnect]_vars

\* ------------------------------------------------------------------------
\* GetNodes
\* ------------------------------------------------------------------------
\* Peer.sendNodes: the Nodes packet with the nodes as body, in reply to reqId
sendNodes(nodeConnectionInfos, reqId) ==
  [type |-> "Nodes", reqId |-> reqId, body |-> nodeConnectionInfos]

\* the requester itself is sent as well
RECURSIVE connectedNodesInfo_WithRequester(_, _, _)
connectedNodesInfo_WithRequester(P, nodePubKey, k) ==
  IF k \notin BroadcastKeys THEN << >>
  ELSE
    LET connectedPeer == P[k]
        rest == connectedNodesInfo_WithRequester(P, nodePubKey, k + 1)
    IN IF /\ connectedPeer.has
          /\ connectedPeer.defined
          /\ Len(connectedPeer.addresses) > 0
       THEN <<[nodePubKey |-> k, addresses |-> connectedPeer.addresses]>> \o rest
       ELSE rest

\* peers.forEach of handleGetNodes, from key k on: the peers other than the
\* one of nodePubKey that have listening addresses (the map is gone through
\* in the order of the keys)
RECURSIVE connectedNodesInfo(_, _, _)
connectedNodesInfo(P, nodePubKey, k) ==
  IF k \notin BroadcastKeys THEN << >>
  ELSE
    LET connectedPeer == P[k]
        rest == connectedNodesInfo(P, nodePubKey, k + 1)
    IN IF /\ connectedPeer.has
          /\ k # nodePubKey
          /\ connectedPeer.defined
          /\ Len(connectedPeer.addresses) > 0
       THEN <<[nodePubKey |-> k, addresses |-> connectedPeer.addresses]>> \o rest
       ELSE rest

handleGetNodes(G, nodePubKey, reqId) ==
  [G EXCEPT !.pc = "sendNodes", !.requester = nodePubKey, !.reqId = reqId,
            !.at = G.peers,
            !.reply = sendNodes(connectedNodesInfo(G.peers, nodePubKey, 1), reqId)]

\* handlePacket: a GetNodes packet with header id reqId has come from the peer
\* of nodePubKey
HandleGetNodes(nodePubKey, reqId) ==
  /\ getNodes.pc = "idle"
  /\ getNodes' = handleGetNodes(getNodes, nodePubKey, reqId)
  /\ UNCHANGED <<poolVars, links, config, nodeState, connect, reputation, broadcast>>

\* the sendNodes that handleGetNodes awaits completes
SendNodesDone ==
  /\ getNodes.pc = "sendNodes"
  /\ getNodes' = [getNodes EXCEPT !.pc = "idle"]
  /\ UNCHANGED <<poolVars, links, config, nodeState, connect, reputation, broadcast>>

\* openPeer admits a peer
PeersSet(k, a) ==
  /\ ~getNodes.peers[k].has
  /\ getNodes' = [getNodes EXCEPT !.peers[k] =
                    [has |-> TRUE, defined |-> a.defined, addresses |-> a.addresses]]
  /\ UNCHANGED <<poolVars, links, config, nodeState, connect, reputation, broadcast>>

\* handlePeerClose removes a peer
PeersDelete(k) ==
  /\ getNodes.peers[k].has
  /\ getNodes' = [getNodes EXCEPT !.peers[k] = NotInPeers]
  /\ UNCHANGED <<poolVars, links, config, nodeState, connect, reputation, broadcast>>

\* a connected pool without peers
InitGetNodes ==
  /\ live = {1}
  /\ Constructed
  /\ db = [p \in Pools |-> [k \in PubKeys |-> "unknown"]]
  /\ links = [k \in BroadcastKeys |-> [has |-> FALSE, pairs |-> {}, stalled |-> FALSE]]
  /\ broadcast = NoBroadcast
  /\ config = [listen |-> TRUE, port |-> 8885, detectexternalip |-> FALSE,
               addresses |-> << >>]
  /\ nodeState = [addresses |-> << >>]
  /\ connect = NoConnect
  /\ getNodes = [NoGetNodes EXCEPT !.pc = "idle"]
  /\ reputation = NoReputation

NextGetNodes ==
  \/ \E k \in BroadcastKeys, reqId \in ReqIds : HandleGetNodes(k, reqId)
  \/ SendNodesDone
  \/ \E k \in BroadcastKeys, a \in PeerAddresses : PeersSet(k, a)
  \/ \E k \in BroadcastKeys : PeersDelete(k)

SpecGetNodes == InitGetNodes /\ [][NextGetNodes]_vars

\* ------------------------------------------------------------------------
\* One pool that has started and accepts sockets
\* ------------------------------------------------------------------------
\* socket.remoteAddress of an accepted socket, as handleSocket tells sockets
\* apart: an address, no address (the client has disconnected), an address
\* that the NodeList has as banned
RemoteAddresses == {"address", "missing", "banned"}

\* handleSocket without the check of the ban
onConnection_BannedAdmitted(S, p, k, v, remoteAddress) ==
  IF remoteAddress = "missing"
    THEN [S EXCEPT !.last.events = @ \cup {<<"destroy", NoPeer, k>>}, !.ret = "DESTROYED"]
  ELSE handleSocket(S, p, k, v)

\* Pool.handleSocket, the listener of 'connection' of the server: the socket
\* is destroyed, or addInbound goes on with it
onConnection(S, p, k, v, remoteAddress) ==
  IF remoteAddress = "missing"
    THEN [S EXCEPT !.last.events = @ \cup {<<"destroy", NoPeer, k>>}, !.ret = "DESTROYED"]
  ELSE IF remoteAddress = "banned"
    THEN [S EXCEPT !.last.events = @ \cup {<<"destroy", NoPeer, k>>}, !.ret = "DESTROYED"]
  ELSE handleSocket(S, p, k, v)

\* the server of pool p has accepted a socket of node k
OnConnection(p, k, v, remoteAddress) ==
  /\ p \in live
  /\ k \notin live
  /\ listening[p]
  /\ Commit(onConnection([Outside("connection", p, k) EXCEPT
                            !.last.address = remoteAddress],
                         p, k, v, remoteAddress))

\* the calls from outside and the events caused by the remote nodes are
\* limited to MaxOpenOps
NextInbound ==
  \/ ops < MaxOpenOps /\ \E p \in Pools, k \in PubKeys, v \in Versions,
                            remoteAddress \in RemoteAddresses :
                           OnConnection(p, k, v, remoteAddress)
  \/ \E e \in PeerIds : BeginOpenDone(e)
  \/ \E e \in PeerIds : CompleteOpenDone(e)
  \/ \E e \in PeerIds : DupTimeout(e)
  \/ \E e \in PeerIds, match \in BOOLEAN : HandleOpenedPeerDone(e, match)
  \/ \E e \in PeerIds : HandleOpenedPeerFail(e)
  \/ \E e \in PeerIds : CloseEvent(e)
  \/ ops < MaxOpenOps /\ \E e \in PeerIds, reason \in RemoteReasons : RemoteClose(e, reason)
  \/ ops < MaxOpenOps /\ \E e \in PeerIds : Stall(e)
  \/ ops < MaxOpenOps /\ \E p \in Pools : Disconnect(p)
  \/ \E p \in Pools : DisconnectDone(p)

SpecInbound == InitStarted /\ [][NextInbound]_vars

\* ------------------------------------------------------------------------
\* Reputation events
\* ------------------------------------------------------------------------
\* the change of the score that NodeList.addReputationEvent makes
scoreDelta(event) ==
  CASE event = "SwapMisbehavior" -> -50
    [] event = "SwapAbuse" -> -100
    [] event = "WireProtocolErr" -> -10
    [] event = "InvalidAuth" -> -20
    [] event = "SwapSuccess" -> 1
    [] OTHER -> 0

\* NodeList.addReputationEvent: the event is recorded, the score changes, and
\* the node is banned by a manual ban or when its score has fallen below the
\* threshold, and unbanned by a manual unban
nodeListAddReputationEvent(R, event) ==
  LET score == R.score + scoreDelta(event)
  IN [R EXCEPT !.forwarded = Append(@, event),
               !.score = score,
               !.banned = IF event = "ManualBan" THEN TRUE
                          ELSE IF event = "ManualUnban" THEN FALSE
                          ELSE @ \/ score < BanThreshold]

\* every event is forwarded, whether the pool is strict or not
addReputationEvent_ForwardsAll(R, event) ==
  nodeListAddReputationEvent(R, event)

\* Pool.addReputationEvent
addReputationEvent(R, event) ==
  IF \/ R.strict
     \/ event = "ManualBan"
     \/ event = "ManualUnban"
     \/ event = "SwapAbuse"
     \/ event = "SwapMisbehavior"
     \/ event = "WireProtocolErr"
     \/ event = "InvalidAuth"
    THEN nodeListAddReputationEvent(R, event)
    ELSE R

\* the listener of 'reputation' that bindPeer gives the peer
onReputation(R, event) ==
  IF R.nodePubKey # NoNode THEN addReputationEvent(R, event) ELSE R

\* Pool.addReputationEvent is called for the node
AddReputationEvent(event) ==
  /\ reputation.raised < MaxEvents
  /\ reputation' = [addReputationEvent(reputation, event) EXCEPT
                      !.raised = @ + 1, !.event = event, !.via = "pool"]
  /\ UNCHANGED <<poolVars, links, config, nodeState, connect, getNodes, broadcast>>

\* the peer of the node emits 'reputation'
PeerReputation(event) ==
  /\ reputation.raised < MaxEvents
  /\ reputation' = [onReputation(reputation, event) EXCEPT
                      !.raised = @ + 1, !.event = event, !.via = "peer"]
  /\ UNCHANGED <<poolVars, links, config, nodeState, connect, getNodes, broadcast>>

\* the Hello of the node has come: the peer knows the nodePubKey
HelloReceived(k) ==
  /\ reputation.nodePubKey = NoNode
  /\ reputation' = [reputation EXCEPT !.nodePubKey = k]
  /\ UNCHANGED <<poolVars, links, config, nodeState, connect, getNodes, broadcast>>

\* a pool, strict or not, with a peer the nodePubKey of which is not known
InitReputation ==
  /\ live = {1}
  /\ Constructed
  /\ db = [p \in Pools |-> [k \in PubKeys |-> "unknown"]]
  /\ links = [k \in BroadcastKeys |-> [has |-> FALSE, pairs |-> {}, stalled |-> FALSE]]
  /\ broadcast = NoBroadcast
  /\ config = [listen |-> TRUE, port |-> 8885, detectexternalip |-> FALSE,
               addresses |-> << >>]
  /\ nodeState = [addresses |-> << >>]
  /\ connect = NoConnect
  /\ getNodes = NoGetNodes
  /\ \E strict \in BOOLEAN : reputation = [NoReputation EXCEPT !.strict = strict]

NextReputation ==
  \/ \E event \in ReputationEvents : AddReputationEvent(event)
  \/ \E event \in ReputationEvents : PeerReputation(event)
  \/ \E k \in PubKeys \ {1} : HelloReceived(k)

SpecReputation == InitReputation /\ [][NextReputation]_vars

\* ------------------------------------------------------------------------
\* Pool.handleOpenedPeer, one step for each of its two awaits: the sending
\* of GetNodes and the write of the node record.  The peer can close while
\* the record is being written.
\* ------------------------------------------------------------------------
\* the then-callback of openPeer does not emit peer.active
handleOpenedPeerWritten_NoEvent(S, e, match) ==
  LET r == S.peer[e]
  IN [createOrUpdateNode(S, r.pool, r.key) EXCEPT !.peer[e].hop = "none",
                                                  !.ret = "OK"]

\* peer.verifyPairs, sendGetNodes, and the call of createNode when the node
\* is not in the NodeList, of updateAddresses when it is
handleOpenedPeerSent(S, e) ==
  LET r == S.peer[e]
  IN [S EXCEPT !.peer[e].hop = IF has(S, r.pool, r.key) THEN "updateAddresses"
                               ELSE "createNode",
               !.last.events = @ \cup {<<"GetNodes", e, r.key>>},
               !.ret = "OK"]

\* the node record is written, handleOpenedPeer resolves and the
\* then-callback of openPeer emits peer.active
handleOpenedPeerWritten(S, e, match) ==
  LET r == S.peer[e]
      written ==
        {<<r.hop, e, r.key>>}
        \cup (IF IsInbound(e) THEN {} ELSE {<<"lastAddress", e, r.key>>})
        \cup (IF ~IsInbound(e) /\ match THEN {<<"lastConnected", e, r.key>>} ELSE {})
  IN [createOrUpdateNode(S, r.pool, r.key) EXCEPT
        !.peer[e].hop = "none",
        !.last.events = @ \cup written \cup {<<"peer.active", e, r.key>>},
        !.ret = "OK"]

\* the write is rejected, handleOpenedPeer rejects and the catch-callback of
\* openPeer logs the error
handleOpenedPeerRejected(S, e) ==
  [S EXCEPT !.peer[e].hop = "none",
            !.last.events = @ \cup {<<"logger.error", e, S.peer[e].key>>},
            !.ret = "REJECTED"]

HandleOpenedPeerSent(e) ==
  LET r == peer[e]
  IN /\ r.hop = "pending"
     /\ r.sock = "open"
     /\ Commit(handleOpenedPeerSent(Begin("sendGetNodes", r.pool, r.key), e))

\* createNode fails if the node is present by now
HandleOpenedPeerWritten(e, match) ==
  LET r == peer[e]
      S0 == Begin("peer.active", r.pool, r.key)
  IN /\ r.hop \in {"createNode", "updateAddresses"}
     /\ IF r.hop = "createNode" /\ has(S0, r.pool, r.key)
          THEN Commit(handleOpenedPeerRejected(S0, e))
          ELSE Commit(handleOpenedPeerWritten(S0, e, match))

\* the database rejects the write
HandleOpenedPeerWriteFail(e) ==
  LET r == peer[e]
  IN /\ r.hop \in {"createNode", "updateAddresses"}
     /\ Commit(handleOpenedPeerRejected(Begin("writeFail", r.pool, r.key), e))

\* the calls from outside, the events caused by the remote nodes and the
\* rejected writes in a behaviour of SpecActive
MaxActiveOps == 2

\* what the event loop runs by itself once it is due
ScheduledActive ==
  \/ \E e \in PeerIds : RemoteAccept(e, "ok")
  \/ \E e \in PeerIds : BeginOpenDone(e)
  \/ \E e \in PeerIds : CompleteOpenDone(e)
  \/ \E e \in PeerIds : DupTimeout(e)
  \/ \E e \in PeerIds : HandleOpenedPeerSent(e)
  \/ \E e \in PeerIds, match \in BOOLEAN : HandleOpenedPeerWritten(e, match)
  \/ \E e \in PeerIds : HandleOpenedPeerFail(e)
  \/ \E e \in PeerIds : CloseEvent(e)

NextActive ==
  \/ ops < MaxActiveOps /\ \E p \in Pools, k \in PubKeys :
                           AddOutbound(p, k, "node", FALSE, FALSE)
  \/ ops < MaxActiveOps /\ \E p \in Pools, k \in PubKeys : RemoteDial(p, k, "ok")
  \/ ops < MaxActiveOps /\ \E e \in PeerIds : RemoteClose(e, NoReason)
  \/ ops < MaxActiveOps /\ \E e \in PeerIds : HandleOpenedPeerWriteFail(e)
  \/ ScheduledActive

SpecActive == InitStarted /\ [][NextActive]_vars /\ WF_vars(ScheduledActive)

\* ------------------------------------------------------------------------
\* Properties
\* ------------------------------------------------------------------------
\* the sockets both ends of which are open
OpenSockets ==
  {c \in Slots : peer[Out(c)].sock = "open" /\ peer[In(c)].sock = "open"}

\* nothing is due any more: every handshake, close and timer has run
Settled ==
  /\ ~Busy
  /\ \A e \in PeerIds : peer[e].pc # "dupWait"

\* the end of socket c that is a peer of pool p
EndAt(c, p) == IF peer[Out(c)].pool = p THEN Out(c) ELSE In(c)

\* socket c is the one connection between the two pools, and each pool holds
\* its end of it as its one peer
OneConnection(c) ==
  /\ OpenSockets = {c}
  /\ {peer[Out(c)].pool, peer[In(c)].pool} = Pools
  /\ \A p \in Pools, k \in PubKeys :
       peers[p][k] = IF k = p THEN NoPeer ELSE EndAt(c, p)

BothHandshakesComplete(c, d) ==
  /\ c # d
  /\ \A e \in {Out(c), In(c), Out(d), In(d)} : peer[e].hs = 3
  /\ peer[Out(c)].pool # peer[Out(d)].pool

\* peer e has just been closed with AlreadyConnected by the duplicate
\* resolution that follows its completed handshake, the other connection to
\* the same node having completed its handshake as well
ClosedAsDuplicate(e) ==
  /\ last.op = "completeOpen"
  /\ <<e, "AlreadyConnected">> \in last.calls
  /\ \E d \in Slots : BothHandshakesComplete(SlotOf(e), d)

C3_ActiveIffInPeers ==
  \A e \in PeerIds :
    peer[e].pool # 0 =>
      (peer[e].active <=>
         peer[e].key \in PubKeys /\ peers[peer[e].pool][peer[e].key] = e)

\* C4: every peer in peers is active and was inserted after beginOpen,
\* validatePeer and completeOpen had returned for it, under its own pub key.
C4_PeersActiveAndOpened ==
  \A p \in Pools, k \in PubKeys :
    peers[p][k] # NoPeer =>
      LET r == peer[peers[p][k]] IN
      r.pool = p /\ r.key = k /\ r.active /\ r.hs = 3

\* C4 witness: completeOpen has returned and the peer is in peers
C4_Witness ==
  /\ last.op = "completeOpen"
  /\ last.ret = "OK"
  /\ peers[last.pool][last.key] # NoPeer

\* C5: no banned pub key is a key of peers or of pendingOutboundPeers or the
\* pub key of a peer in pendingInboundPeers.
C5_BannedNotConnected ==
  \A p \in Pools, k \in PubKeys :
    isBanned(Cur, p, k) =>
      /\ peers[p][k] = NoPeer
      /\ pendingOutboundPeers[p][k] = NoPeer
      /\ \A e \in pendingInboundPeers[p] : peer[e].key # k

\* the outbound attempts of pool p to node k that have not returned
InProgress(p, k) ==
  {e \in PeerIds : /\ ~IsInbound(e) /\ peer[e].pool = p /\ peer[e].exp = k
                   /\ peer[e].pc \in {"dial", "hello", "ack", "dupWait", "closeThrow"}}

\* C6 as claimed: at most one outbound attempt per pub key is in progress,
\* whatever the revokeConnectionRetries flags of the calls.
C6_OneAttemptPerKey ==
  \A p \in Pools, k \in PubKeys : Cardinality(InProgress(p, k)) <= 1

\* C6 amended: as long as no call has replaced a pending attempt (which only
\* a call with revokeConnectionRetries = true does), the one attempt in
\* progress for a pub key is the entry of pendingOutboundPeers.
C6_OneAttemptUnlessRevoked ==
  ~hist.revoke =>
    \A p \in Pools, k \in PubKeys :
      InProgress(p, k) = IF pendingOutboundPeers[p][k] = NoPeer THEN {}
                         ELSE {pendingOutboundPeers[p][k]}

\* C6 witness: an addOutbound call has been refused because an attempt to
\* the same node is pending
C6_Witness ==
  /\ last.op = "addOutbound" /\ last.ret = "ALREADY_CONNECTING"
  /\ ~hist.revoke
  /\ InProgress(last.pool, last.key) # {}

\* the node.ban listener has closed, with Banned, the peer of the banned node
BanClosesPeer ==
  last.op = "banNode" /\ last.ret = "OK" /\ peers[last.pool][last.key] # NoPeer
    => <<peers[last.pool][last.key], "Banned">> \in last.calls

\* the last step was an addOutbound call to a node that is banned
AddOutboundToBanned ==
  /\ last.op = "addOutbound"
  /\ last.key # last.pool
  /\ isBanned(Cur, last.pool, last.key)

ReconnectionCalledFor(c) ==
  /\ c.sent \in {NoReason, "ResponseStalling"}
  /\ c.recv \in {NoReason, "ResponseStalling", "AlreadyConnected", "Shutdown"}
  /\ ~c.inbound
  /\ c.key \in PubKeys
  /\ c.connected /\ ~c.disconnecting

\* C9: when an admitted peer closes, handlePeerClose calls tryConnectNode
\* with retryConnecting if and only if the reasons sent and received call
\* for it, the peer was outbound, its pub key is known and the pool is
\* connected and not disconnecting.
C9_ReconnectIff ==
  \A c \in last.closes : c.reconnect <=> ReconnectionCalledFor(c)

\* C9 witness: an outbound peer has closed and a new attempt to its node,
\* with retries, is pending
C9_Witness ==
  \E c \in last.closes :
    /\ c.reconnect
    /\ pendingOutboundPeers[last.pool][c.key] # NoPeer
    /\ peer[pendingOutboundPeers[last.pool][c.key]].pc = "dial"

\* pool p starts closing its connections in this step
DisconnectCloses(p) ==
  dpc[p].at # "awaitClose" /\ dpc'[p].at = "awaitClose"

\* disconnect() of pool p returns in this step
DisconnectReturns(p) == connected[p] /\ ~connected'[p]

\* C10: disconnect() sets disconnecting before it closes anything, calls
\* close with Shutdown on every peer in peers and close on every pending
\* peer, and sets connected and disconnecting to false only once the server
\* has stopped (every connection it has accepted has ended) and the peers
\* closed with Shutdown have emitted 'close'.
C10_DisconnectOrder ==
  [][\A p \in Pools :
       /\ DisconnectCloses(p) =>
            /\ disconnecting'[p] /\ connected'[p]
            /\ \A k \in PubKeys :
                 /\ peers[p][k] # NoPeer =>
                      <<peers[p][k], "Shutdown">> \in last'.calls
                 /\ pendingOutboundPeers[p][k] # NoPeer =>
                      <<pendingOutboundPeers[p][k], NoReason>> \in last'.calls
            /\ \A e \in pendingInboundPeers[p] : <<e, NoReason>> \in last'.calls
       /\ DisconnectReturns(p) =>
            /\ disconnecting[p] /\ ~disconnecting'[p]
            /\ ~listening[p]
            /\ \A e \in PeerIds :
                 peer[e].pool = p =>
                   /\ ~(peer[e].sock = "closing" /\ peer[e].sent = "Shutdown")
                   /\ IsInbound(e) => peer[e].sock = "closed"
    ]_vars

\* C10 witness: disconnect() has closed a peer with Shutdown and a pending
\* peer, and waits for the peer to be closed
C10_Witness ==
  /\ last.op = "disconnect"
  /\ dpc[last.pool].at = "awaitClose" /\ dpc[last.pool].closing # {}
  /\ \E c \in last.calls : c[2] = "Shutdown"
  /\ \E c \in last.calls : c[2] = NoReason

\* C11: disconnect() does not begin to close peers or pending connections
\* while the start-up connectNodes call launched by init is still running.
C11_DisconnectAwaitsBulk ==
  [][\A p \in Pools : DisconnectCloses(p) => ~BulkPending(Cur, p)]_vars

\* peer e of a pool has received a Hello whose version is a valid semver lower
\* than minCompatibleVersion
LowVersion(e) == peer[e].pool # 0 /\ peer[e].ver = "low"

\* peer e is not in peers, is not active and handleOpenedPeer does not run for it
NotAdmitted(e) ==
  /\ ~peer[e].active
  /\ peer[e].hop = "none"
  /\ \A k \in PubKeys : peers[peer[e].pool][k] # e

ConnectedToSelf(e) == peer[e].pool # 0 /\ peer[e].key = peer[e].pool

\* the last step was an addOutbound call to the pool's own pub key or to a
\* loopback or wildcard host with the pool's own listen port
AddOutboundToSelf(l) ==
  l.op = "addOutbound" /\ (l.key = l.pool \/ l.address = "self")

\* C13: the pool's own pub key is never a key of peers.  addOutbound to the
\* own pub key or to an address that is the pool itself throws
\* ATTEMPTED_CONNECTION_TO_SELF and creates no Peer, and a peer whose Hello
\* carries the own pub key is closed with ConnectedToSelf when the Hello is
\* validated and is never admitted.
C13_NeverConnectedToSelf ==
  /\ [](/\ \A p \in Pools : peers[p][p] = NoPeer
        /\ \A e \in PeerIds :
             ConnectedToSelf(e) =>
               /\ NotAdmitted(e)
               /\ peer[e].sock # "open"
               /\ peer[e].sock = "closing" => peer[e].sent = "ConnectedToSelf")
  /\ [][/\ AddOutboundToSelf(last') =>
             /\ last'.ret = "ATTEMPTED_CONNECTION_TO_SELF"
             /\ peer' = peer
             /\ pendingOutboundPeers' = pendingOutboundPeers
             /\ peers' = peers
        /\ \A e \in PeerIds :
             ~ConnectedToSelf(e) /\ ConnectedToSelf(e)' =>
               /\ <<e, "ConnectedToSelf">> \in last'.calls
               /\ last'.ret = "ATTEMPTED_CONNECTION_TO_SELF"
     ]_vars

\* C13 witness: a peer whose Hello carries the own pub key is being closed
\* with ConnectedToSelf, and addOutbound to a loopback address with the own
\* listen port has thrown
C13_Witness ==
  /\ AddOutboundToSelf(last) /\ last.key # last.pool
  /\ last.ret = "ATTEMPTED_CONNECTION_TO_SELF"
  /\ \E e \in PeerIds :
       ConnectedToSelf(e) /\ peer[e].sock = "closing" /\ peer[e].sent = "ConnectedToSelf"

\* ------------------------------------------------------------------------
\* C14: connectNodes called twice
\* ------------------------------------------------------------------------
\* the outbound connection attempts of pool p to node k that are in progress:
\* addOutbound has created the peer and openPeer has not returned or thrown
Attempts(p, k) ==
  {e \in PeerIds : /\ ~IsInbound(e)
                   /\ peer[e].pool = p /\ peer[e].exp = k
                   /\ peer[e].pc \notin {"none", "done"}}

\* the step creates the socket of an outbound connection of pool p to node k
Dials(p, k) ==
  \E e \in PeerIds : /\ ~IsInbound(e)
                     /\ peer[e].pc = "none"
                     /\ peer'[e].pc = "dial"
                     /\ peer'[e].pool = p /\ peer'[e].exp = k

\* C14: calls of connectNodes with allowKnown = true, from the start-up and
\* from Nodes packets with any lists, make no duplicate outbound attempts: at
\* no time are two outbound attempts of a pool to the same pub key in
\* progress, and a call of connectNodes dials no socket for a pub key that is
\* a key of peers.
C14_ConnectNodesNoDuplicates ==
  /\ [](\A p \in Pools, k \in PubKeys : Cardinality(Attempts(p, k)) <= 1)
  /\ [][last'.op \in {"nodes", "nodesLoaded"} =>
          \A p \in Pools, k \in PubKeys :
            Dials(p, k) => /\ peers[p][k] = NoPeer
                           /\ peers'[p][k] = NoPeer
                           /\ Attempts(p, k) = {}
       ]_vars

\* C14 witness: connectNodes has run for a Nodes packet that lists a node to
\* which the attempt of the start-up connectNodes is in progress
C14_Witness ==
  /\ last.op = "nodes"
  /\ \E k \in last.list \ {last.pool} :
       \E e \in Attempts(last.pool, k) : peer[e].bulk

\* connectNodes has run for a Nodes packet that lists a node that is a key of
\* peers, while no attempt to this node is in progress
C14_WitnessAdmitted ==
  /\ last.op = "nodes"
  /\ \E k \in last.list \ {last.pool} :
       peers[last.pool][k] # NoPeer /\ Attempts(last.pool, k) = {}

\* ------------------------------------------------------------------------
\* C15, C16: broadcasts
\* ------------------------------------------------------------------------
\* the peers of the pool for which the pair of the last broadcast is active
PairActivePeers ==
  {k \in BroadcastKeys : links[k].has /\ broadcast.pairId \in links[k].pairs}

\* C15: broadcastOrder calls sendPacket on exactly the peers in peers for
\* which the pair of the order is active; broadcastOrderInvalidation calls
\* it on exactly those of them whose pub key is not the node to exclude, so
\* that the excluded node is never sent the packet.
C15_BroadcastRecipients ==
  /\ broadcast.op = "broadcastOrder" => broadcast.sent = PairActivePeers
  /\ broadcast.op = "broadcastOrderInvalidation" =>
       /\ broadcast.sent = PairActivePeers \ {broadcast.nodeToExclude}
       /\ broadcast.nodeToExclude \notin broadcast.sent

\* C15 witness: an invalidation was broadcast to two peers and neither to
\* the excluded peer, for which the pair is active, nor to a peer for which
\* the pair is not active
C15_Witness ==
  /\ broadcast.op = "broadcastOrderInvalidation"
  /\ broadcast.nodeToExclude \in PairActivePeers
  /\ broadcast.sent # {}
  /\ \E k \in BroadcastKeys :
       links[k].has /\ k \notin PairActivePeers /\ k \notin broadcast.sent

\* an order was broadcast to two peers and not to a third
C15_WitnessOrder ==
  /\ broadcast.op = "broadcastOrder"
  /\ Cardinality(broadcast.sent) = 2
  /\ \E k \in BroadcastKeys : links[k].has /\ k \notin broadcast.sent

\* C16: a broadcast does not wait for a send: when the sendPacket of a peer
\* never completes, the broadcast has still called sendPacket on every other
\* peer it is to reach and has returned.
C16_BroadcastDoesNotWait ==
  \A s \in BroadcastKeys :
    broadcast.op # "none" /\ s \in broadcast.sent /\ links[s].stalled =>
      /\ s \in broadcast.waiting
      /\ broadcast.returned
      /\ \A k \in PairActivePeers \ {s, broadcast.nodeToExclude} :
           k \in broadcast.sent

\* C16 witness: the send to a peer has not completed and never will, and the
\* send to a peer that follows it in peers has completed
C16_Witness ==
  /\ broadcast.returned
  /\ \E s \in broadcast.waiting, k \in broadcast.sent :
       links[s].stalled /\ s < k /\ ~links[k].stalled /\ k \notin broadcast.waiting

\* ------------------------------------------------------------------------
\* C17: peer.active
\* ------------------------------------------------------------------------
\* the step emits peer.active with pub key k for peer e
EmitsActive(e, k) == <<"peer.active", e, k>> \in last'.events

PoolClosed(p) == disconnecting[p] \/ ~connected[p]

\* the step is an addOutbound call to a pool that is disconnecting or not
\* connected
AddOutboundWhileClosed == last'.op = "addOutbound" /\ PoolClosed(last'.pool)

\* the step leaves the three maps of every pool as they were
MapsUnchanged ==
  /\ peers' = peers
  /\ pendingOutboundPeers' = pendingOutboundPeers
  /\ pendingInboundPeers' = pendingInboundPeers

\* no step of a pool that is disconnecting or not connected, before or after
\* the step, creates an outbound socket
NoDialWhileClosed ==
  \A p \in Pools, k \in PubKeys :
    PoolClosed(p) \/ PoolClosed(p)' => ~Dials(p, k)

\* C18 as claimed: while the pool is disconnecting or not connected, every
\* addOutbound throws POOL_CLOSED and leaves peers, pendingOutboundPeers and
\* pendingInboundPeers unchanged, and no outbound socket is dialled.
C18_ClosedAlwaysThrowsPoolClosed ==
  [][/\ AddOutboundWhileClosed => last'.ret = "POOL_CLOSED" /\ MapsUnchanged
     /\ NoDialWhileClosed
    ]_vars

\* C18 amended: while the pool is disconnecting or not connected, addOutbound
\* throws ATTEMPTED_CONNECTION_TO_SELF for the pool's own pub key or address
\* and POOL_CLOSED for every other, creates no Peer and leaves the three maps
\* unchanged; no outbound socket is dialled, whether by a caller, for a
\* Nodes packet, at start-up or on the close of a peer.
C18_ClosedThrows ==
  [][/\ AddOutboundWhileClosed =>
          /\ last'.ret = IF AddOutboundToSelf(last')
                           THEN "ATTEMPTED_CONNECTION_TO_SELF" ELSE "POOL_CLOSED"
          /\ MapsUnchanged
          /\ peer' = peer
     /\ NoDialWhileClosed
    ]_vars

\* C18 witness: addOutbound to another node has thrown POOL_CLOSED on a pool
\* that is connected and disconnecting
C18_Witness ==
  /\ last.op = "addOutbound"
  /\ ~AddOutboundToSelf(last)
  /\ last.ret = "POOL_CLOSED"
  /\ connected[last.pool] /\ disconnecting[last.pool]

\* connectNodes has run for a Nodes packet on a pool that is disconnecting
C18_WitnessNodes ==
  /\ last.op = "nodes"
  /\ last.list \ {last.pool} # {}
  /\ disconnecting[last.pool]

\* an outbound peer has closed with reasons that call for a reconnection on
\* a pool that is disconnecting
C18_WitnessClose ==
  \E c \in last.closes :
    /\ ~c.inbound /\ c.disconnecting
    /\ doesDisconnectionReasonCallForReconnection(c.sent, c.recv)

\* ------------------------------------------------------------------------
\* C19: addOutbound to a node that is connected or being connected to
\* ------------------------------------------------------------------------
\* the step is an addOutbound call, without revocation, for a pub key that is
\* a key of peers / of pendingOutboundPeers
AddOutboundToConnected ==
  last'.op = "addOutbound" /\ peers[last'.pool][last'.key] # NoPeer

AddOutboundToPending ==
  last'.op = "addOutbound" /\ pendingOutboundPeers[last'.pool][last'.key] # NoPeer

\* the step creates no Peer and leaves peers and pendingOutboundPeers as
\* they were
NothingCreated ==
  /\ \A e \in PeerIds : peer[e].pc = "none" => peer'[e].pc = "none"
  /\ peers' = peers
  /\ pendingOutboundPeers' = pendingOutboundPeers

\* the error of the checks that addOutbound makes before it looks at peers
EarlierError(l) ==
  IF AddOutboundToSelf(l) THEN "ATTEMPTED_CONNECTION_TO_SELF"
  ELSE IF PoolClosed(l.pool) THEN "POOL_CLOSED"
  ELSE IF l.address = "onion" THEN "NODE_TOR_ADDRESS"
  ELSE IF nodes[l.pool][l.key] = "banned" THEN "NODE_IS_BANNED"
  ELSE "none"

\* C19 as claimed: addOutbound for a pub key that is a key of peers throws
\* NODE_ALREADY_CONNECTED, and for a pub key that has an entry in
\* pendingOutboundPeers, without revocation, throws ALREADY_CONNECTING; in
\* both cases no Peer is created and the entries are left unchanged.
C19_AlwaysThrowsConnectedOrConnecting ==
  [][/\ AddOutboundToConnected =>
          last'.ret = "NODE_ALREADY_CONNECTED" /\ NothingCreated
     /\ AddOutboundToPending =>
          last'.ret = "ALREADY_CONNECTING" /\ NothingCreated
    ]_vars

\* C19 amended: addOutbound, without revocation, for a pub key that is a key
\* of peers or of pendingOutboundPeers throws, creates no Peer and leaves the
\* entries unchanged.  The error is that of the first check that fails: the
\* pool's own pub key or address, the closed pool, a .onion address, the ban,
\* then NODE_ALREADY_CONNECTED for a key of peers, then ALREADY_CONNECTING for
\* a key of pendingOutboundPeers only.
C19_ThrowsFirstFailedCheck ==
  [][AddOutboundToConnected \/ AddOutboundToPending =>
       /\ last'.ret =
            IF EarlierError(last') # "none" THEN EarlierError(last')
            ELSE IF peers[last'.pool][last'.key] # NoPeer
              THEN "NODE_ALREADY_CONNECTED"
            ELSE "ALREADY_CONNECTING"
       /\ NothingCreated
    ]_vars

\* C19 witness: addOutbound for a pub key that is a key of peers and of
\* pendingOutboundPeers has thrown NODE_ALREADY_CONNECTED
C19_Witness ==
  /\ last.op = "addOutbound"
  /\ last.ret = "NODE_ALREADY_CONNECTED"
  /\ peers[last.pool][last.key] # NoPeer
  /\ pendingOutboundPeers[last.pool][last.key] # NoPeer

\* addOutbound for a pub key of pendingOutboundPeers has thrown
\* ALREADY_CONNECTING
C19_WitnessConnecting ==
  /\ last.op = "addOutbound"
  /\ last.ret = "ALREADY_CONNECTING"
  /\ peers[last.pool][last.key] = NoPeer
  /\ pendingOutboundPeers[last.pool][last.key] # NoPeer

\* ------------------------------------------------------------------------
\* C20: the close of an admitted peer
\* ------------------------------------------------------------------------
\* the 'close' event of peer e fires in the step while the peer is active
ClosesActive(e) ==
  /\ peer[e].active
  /\ peer[e].sock \in {"open", "closing"}
  /\ peer'[e].sock \notin {"open", "closing"}

\* C20: in the step in which the 'close' event of an active peer fires, the
\* pool deletes the pub key of the peer from peers (a peer that waited for
\* this close in duplicate resolution may be inserted under the key in the
\* same step), sets active of the peer to false and emits peer.close with
\* the pub key; peer.close is emitted for a peer in no other step, hence
\* once for the session.
C20_CloseOfActivePeer ==
  [][\A e \in PeerIds :
       /\ ClosesActive(e) =>
            /\ peers'[peer[e].pool][peer[e].key] # e
            /\ \/ peers'[peer[e].pool][peer[e].key] = NoPeer
               \/ <<peers'[peer[e].pool][peer[e].key], "OK">> \in last'.rets
            /\ ~peer'[e].active
            /\ <<"peer.close", e, peer[e].key>> \in last'.events
       /\ \A k \in PubKeys :
            <<"peer.close", e, k>> \in last'.events =>
              ClosesActive(e) /\ k = peer[e].key
    ]_vars

\* C20 witness: an active peer has closed, peer.close was emitted with its
\* pub key and peers has no entry for the key
C20_Witness ==
  \E e \in PeerIds, k \in PubKeys :
    /\ <<"peer.close", e, k>> \in last.events
    /\ last.pool # k
    /\ peers[last.pool][k] = NoPeer
    /\ ~peer[e].active

\* an active peer has closed and a peer that waited for the close was
\* inserted into peers under the same pub key
C20_WitnessWaiter ==
  \E e \in PeerIds, k \in PubKeys :
    /\ <<"peer.close", e, k>> \in last.events
    /\ peers[last.pool][k] \notin {NoPeer, e}

\* ------------------------------------------------------------------------
\* C21: the node record of an opened peer
\* ------------------------------------------------------------------------
\* the step makes the NodeList call, or passes the value, named kind for the
\* node k on behalf of peer e
Written(kind, e, k) == <<kind, e, k>> \in last'.events

\* handleOpenedPeer of peer e completes in the step
CompletesHandleOpenedPeer(e) ==
  /\ last'.op = "peer.active"
  /\ peer[e].hop = "pending" /\ peer'[e].hop = "none"

\* what handleOpenedPeer of peer e leaves in the NodeList: the node is
\* created when it was unknown and its addresses are updated when it was
\* known, and lastAddress and lastConnected are given for an outbound peer
\* only
RecordWritten(e) ==
  LET p == peer[e].pool
      k == peer[e].key
  IN /\ nodes'[p][k] # "unknown"
     /\ Written("createNode", e, k) <=> nodes[p][k] = "unknown"
     /\ Written("updateAddresses", e, k) <=> nodes[p][k] # "unknown"
     /\ Written("lastAddress", e, k) <=> ~IsInbound(e)
     /\ Written("lastConnected", e, k) => ~IsInbound(e)

\* a node record is created or updated only by handleOpenedPeer of a peer
\* that is active under the pub key of the node, and a node enters the
\* NodeList only so or when the NodeList is loaded
WrittenForAdmittedOnly(kinds) ==
  /\ \A e \in PeerIds, k \in PubKeys, kind \in kinds :
       Written(kind, e, k) =>
         CompletesHandleOpenedPeer(e) /\ peer[e].active /\ peer[e].key = k
  /\ \A p \in Pools, k \in PubKeys :
       nodes[p][k] = "unknown" /\ nodes'[p][k] # "unknown" =>
         \/ last'.op = "nodesLoaded"
         \/ \E e \in PeerIds : peer[e].pool = p /\ Written("createNode", e, k)

C21_WitnessInbound ==
  \E e \in PeerIds :
    /\ last.op = "peer.active"
    /\ IsInbound(e)
    /\ <<"updateAddresses", e, last.key>> \in last.events

\* ------------------------------------------------------------------------
\* C22: the advertised addresses
\* ------------------------------------------------------------------------
\* C22: nodeState.addresses never has two entries with the same host and
\* port, whatever the configured addresses and the external IP detected.
C22_NoDuplicateAddresses ==
  \A i, j \in 1..Len(nodeState.addresses) :
    i # j => nodeState.addresses[i] # nodeState.addresses[j]

\* ------------------------------------------------------------------------
\* Duplicate resolution in openPeer
\* ------------------------------------------------------------------------
\* completeOpen returns for peer e in this step while peers has an entry for
\* the pub key of e
CompletesAsDuplicate(e) ==
  /\ peer[e].pc = "ack" /\ peer[e].hs = 2 /\ peer'[e].hs = 3
  /\ peers[peer[e].pool][peer[e].key] # NoPeer

\* the close of peer e, which openPeer awaits before it throws, ends in this step
CloseAwaitedEnds(e) ==
  /\ peer[e].pc = "closeThrow" /\ peer[e].sock = "closing"
  /\ peer'[e].sock # "closing"

\* C23: when completeOpen has returned for a peer, peers has an entry for its
\* pub key and the own pub key is greater than the peer's, the new peer is
\* closed with AlreadyConnected and openPeer throws NODE_ALREADY_CONNECTED once
\* the close has ended; the existing entry of peers is left in place and its
\* peer stays active.
C23_HigherKeyClosesNewPeer ==
  [][\A e \in PeerIds :
       LET p == peer[e].pool
           k == peer[e].key
       IN /\ CompletesAsDuplicate(e) /\ p > k =>
               /\ <<e, "AlreadyConnected">> \in last'.calls
               /\ peer'[e].sock = "closing" /\ peer'[e].sent = "AlreadyConnected"
               /\ peer'[e].pc = "closeThrow" /\ peer'[e].err = "NODE_ALREADY_CONNECTED"
               /\ last'.ret = "NODE_ALREADY_CONNECTED"
               /\ ~peer'[e].active
               /\ peers'[p][k] = peers[p][k]
               /\ peer'[peers[p][k]].active
          /\ CloseAwaitedEnds(e) /\ p > k /\ peer[e].err = "NODE_ALREADY_CONNECTED" =>
               /\ <<e, "NODE_ALREADY_CONNECTED">> \in last'.rets
               /\ peers'[p][k] # e
               /\ \A x \in PeerIds \ {e} :
                    peers[p][k] = x /\ peer[x].sock = "open" =>
                      peers'[p][k] = x /\ peer'[x].active
     ]_vars

\* C23 witness: openPeer of pool 2 has thrown NODE_ALREADY_CONNECTED for a
\* duplicate peer that it has closed with AlreadyConnected, and the peer that
\* was in peers before is still there, active and open
C23_Witness ==
  /\ last.op = "close" /\ last.pool = 2 /\ last.key = 1
  /\ \E e \in PeerIds :
       /\ <<e, "NODE_ALREADY_CONNECTED">> \in last.rets
       /\ peers[2][1] \notin {NoPeer, e}
       /\ peer[peers[2][1]].active /\ peer[peers[2][1]].sock = "open"
       /\ peer[peers[2][1]].hs = 3

\* peer e waits in the duplicate resolution of openPeer
Waits(e) == peer[e].pc = "dupWait"

\* peer x emits 'close' in this step
Closes(x) ==
  /\ peer[x].sock \in {"open", "closing"}
  /\ peer'[x].sock \notin {"open", "closing"}

\* the peers that wait for the 'close' of peer x
WaitersOn(x) == {w \in PeerIds : Waits(w) /\ peer[w].waitOn = x}

\* the steps of a peer that waits in the duplicate resolution of openPeer:
\* how the wait begins and the two ways in which it ends
WaitSteps ==
  [][\A e \in PeerIds :
      LET p == peer[e].pool
          k == peer[e].key
          x == peer[e].waitOn
      IN /\ CompletesAsDuplicate(e) /\ ~(p > k) =>
              /\ Waits(e)' /\ peer'[e].waitOn = peers[p][k]
              /\ peers' = peers
              /\ ~peer'[e].active
              /\ \A reason \in {NoReason, "AlreadyConnected"} :
                   <<e, reason>> \notin last'.calls
         /\ Waits(e) /\ Closes(x) =>
              /\ ~Waits(e)'
              /\ peer'[e].active /\ peer'[e].hop = "pending"
              /\ <<e, "OK">> \in last'.rets
              /\ <<e, "AlreadyConnected">> \notin last'.calls
              /\ peers'[p][k] \in WaitersOn(x)
              /\ WaitersOn(x) = {e} => peers'[p][k] = e
         /\ Waits(e) /\ ~Closes(x) /\ ~Waits(e)' =>
              /\ last'.op = "dupTimeout"
              /\ <<e, "AlreadyConnected">> \in last'.calls
              /\ peers' = peers
              /\ \/ <<e, "NODE_ALREADY_CONNECTED">> \in last'.rets
                 \/ /\ peer'[e].sock = "closing" /\ peer'[e].sent = "AlreadyConnected"
                    /\ peer'[e].pc = "closeThrow"
                    /\ peer'[e].err = "NODE_ALREADY_CONNECTED"
              /\ ~peer'[e].active
         /\ CloseAwaitedEnds(e) /\ ~(p > k) /\ peer[e].err = "NODE_ALREADY_CONNECTED" =>
              /\ <<e, "NODE_ALREADY_CONNECTED">> \in last'.rets
              /\ peers'[p][k] # e
  ]_vars

C24_WitnessTimeout ==
  /\ last.op = "dupTimeout"
  /\ \E e \in PeerIds :
       /\ <<e, "AlreadyConnected">> \in last.calls
       /\ peer[e].sock = "closing" /\ peer[e].sent = "AlreadyConnected"
       /\ peers[last.pool][last.key] \notin {NoPeer, e}
       /\ peer[peers[last.pool][last.key]].sock = "open"

\* ------------------------------------------------------------------------
\* The checks of validatePeer
\* ------------------------------------------------------------------------
\* openPeer validates peer e in this step
Validates(e) ==
  /\ peer[e].pc = "hello" /\ peer'[e] # peer[e]
  /\ last'.op = "beginOpen"

\* the checks of validatePeer that peer e fails, numbered in the claimed order,
\* as told from the Hello it has received and from the pool
FailedChecks(e) ==
  LET p == peer[e].pool
      k == HelloKey(peer[Other(e)])
      v == HelloVersion(peer[Other(e)])
  IN {i \in 1..7 :
        \/ i = 1 /\ k = p
        \/ i = 2 /\ v = "malformed"
        \/ i = 3 /\ v = "low"
        \/ i = 4 /\ ~connected[p]
        \/ i = 5 /\ nodes[p][k] = "banned"
        \/ i = 6 /\ peers[p][k] # NoPeer
        \/ i = 7 /\ peer[e].sock # "open"}

FirstFailed(e) == CHOOSE i \in FailedChecks(e) : \A j \in FailedChecks(e) : i <= j

\* the DisconnectionReason and the error of each check
Rejections ==
  << <<"ConnectedToSelf", "ATTEMPTED_CONNECTION_TO_SELF">>,
     <<"MalformedVersion", "MALFORMED_VERSION">>,
     <<"IncompatibleProtocolVersion", "INCOMPATIBLE_VERSION">>,
     <<"NotAcceptingConnections", "POOL_CLOSED">>,
     <<"Banned", "NODE_IS_BANNED">>,
     <<"AlreadyConnected", "NODE_ALREADY_CONNECTED">>,
     <<NoReason, "NOT_CONNECTED">> >>

\* the arguments of the Peer.close calls made on peer e in this step
CloseCalls(e) == {c[2] : c \in {d \in last'.calls : d[1] = e}}

\* peer e is not admitted in this step
StaysOut(e) ==
  /\ ~peer'[e].active /\ peer'[e].hop = "none" /\ peer'[e].pc # "ack"
  /\ peers' = peers

\* C25: validatePeer applies its checks in the order own pub key, malformed
\* version, incompatible version, pool not connected, banned, already in
\* peers, socket not connected.  The first check that fails decides alone: the
\* peer is closed with the reason of that check and of no other, the error
\* of that check is thrown, and the peer is not admitted, neither then nor
\* when its close has ended.  A peer that fails no check goes on to
\* completeOpen.
C25_FirstFailedCheckDecides ==
  [][\A e \in PeerIds :
      /\ Validates(e) /\ FailedChecks(e) = {} =>
           /\ peer'[e].pc = "ack" /\ CloseCalls(e) = {}
           /\ last'.ret = "OK"
      /\ Validates(e) /\ FailedChecks(e) # {} =>
           /\ CloseCalls(e) = {Rejections[FirstFailed(e)][1]} \ {NoReason}
           /\ last'.ret = Rejections[FirstFailed(e)][2]
           /\ StaysOut(e)
           /\ \/ <<e, last'.ret>> \in last'.rets
              \/ peer'[e].pc = "closeThrow" /\ peer'[e].err = last'.ret
      /\ CloseAwaitedEnds(e) =>
           /\ <<e, peer[e].err>> \in last'.rets
           /\ ~peer'[e].active /\ peer'[e].hop = "none"
           /\ \A p \in Pools, k \in PubKeys : peers'[p][k] # e
  ]_vars

\* C25 witness: a peer that runs an incompatible version, of a banned node of
\* which a peer is in peers, in a pool that is not connected, has been closed
\* with IncompatibleProtocolVersion alone
C25_Witness ==
  /\ last.op = "beginOpen"
  /\ last.ret = "INCOMPATIBLE_VERSION"
  /\ ~connected[last.pool]
  /\ nodes[last.pool][last.key] = "banned"
  /\ peers[last.pool][last.key] # NoPeer
  /\ \E e \in PeerIds :
       {c \in last.calls : c[1] = e} = {<<e, "IncompatibleProtocolVersion">>}

C26_WitnessBanned ==
  /\ last.op = "beginOpen"
  /\ last.ret = "NODE_IS_BANNED"
  /\ \E e \in PeerIds :
       /\ <<e, "Banned">> \in last.calls
       /\ peer[e].sock = "closing" /\ peer[e].sent = "Banned"

\* ------------------------------------------------------------------------
\* The close of a peer that is not active
\* ------------------------------------------------------------------------
\* a peer of a pool that is not active emits 'close' in this step, and no
\* active peer does
ClosesInactive(e) ==
  /\ peer[e].pool # 0 /\ ~peer[e].active
  /\ Closes(e)
  /\ \A x \in PeerIds : peer[x].active => ~Closes(x)

\* C27: when a peer that is not active closes, before or after its openPeer
\* has failed, peers is left as it is, also when it holds another peer of the
\* same pub key; no peer.close event is emitted and handlePeerClose starts
\* no reconnection.
C27_InactiveCloseLeavesPeers ==
  [][\A e \in PeerIds :
      ClosesInactive(e) =>
        /\ peers' = peers
        /\ \A x \in PeerIds : peer[x].active => peer'[x].active
        /\ last'.closes = {}
        /\ \A x \in PeerIds, k \in PubKeys \cup {0} :
             <<"peer.close", x, k>> \notin last'.events
  ]_vars

\* C27 witness: openPeer has failed for a peer that has closed without having
\* been active while another peer of the same pub key is in peers, which is
\* still there, active and open; nothing was emitted
C27_Witness ==
  /\ last.op \in {"close", "remoteClose"}
  /\ last.closes = {} /\ last.events = {}
  /\ last.pool \in Pools /\ last.key \in PubKeys
  /\ \E e \in PeerIds, code \in {"NODE_ALREADY_CONNECTED", "NOT_CONNECTED"} :
       /\ <<e, code>> \in last.rets
       /\ peers[last.pool][last.key] \notin {NoPeer, e}
       /\ peer[peers[last.pool][last.key]].active
       /\ peer[peers[last.pool][last.key]].sock = "open"

\* ------------------------------------------------------------------------
\* The addOutbound calls of tryConnectNode
\* ------------------------------------------------------------------------
\* the lastAddress of the node that tryConnectNode is given
LastAddress == connect.node.lastAddress

\* the addOutbound calls made so far: those with retryConnecting, and those on
\* advertised addresses, which are all but a first call on the lastAddress
\* and the calls with retryConnecting
FinalAttempts ==
  {i \in 1..Len(connect.attempts) : connect.attempts[i].retryConnecting}

AdvertisedAttempts ==
  {i \in 1..Len(connect.attempts) :
     /\ ~connect.attempts[i].retryConnecting
     /\ i > 1 \/ LastAddress = NoAddress}

\* the advertised addresses of the node that are not its lastAddress
OtherAddresses ==
  {j \in 1..Len(connect.node.addresses) :
     ~(connect.node.addresses[j].host = LastAddress.host
       /\ connect.node.addresses[j].port = LastAddress.port)}

\* the addOutbound calls before call i have all thrown
AllFailedBefore(i) ==
  \A j \in 1..(i - 1) : j <= Len(connect.results) /\ ~connect.results[j]

\* C28: tryConnectNode calls addOutbound on the lastAddress of the node, when
\* it has one, before any advertised address; then on the advertised
\* addresses in descending order of lastConnected, never on one that is equal
\* to the lastAddress; it makes a call only after every earlier call has
\* thrown, and it leaves out no advertised address other than the lastAddress
\* while the calls throw.
C28_LastAddressThenAdvertised ==
  connect.pc \notin {"none", "idle"} =>
    /\ LastAddress # NoAddress =>
         /\ Len(connect.attempts) >= 1
         /\ connect.attempts[1] = [address |-> LastAddress, retryConnecting |-> FALSE]
    /\ \A i \in AdvertisedAttempts :
         LET a == connect.attempts[i].address IN
         /\ \E j \in OtherAddresses : connect.node.addresses[j] = a
         /\ ~(a.host = LastAddress.host /\ a.port = LastAddress.port)
         /\ \A j \in AdvertisedAttempts :
              i < j => a.lastConnected >= connect.attempts[j].address.lastConnected
    /\ \A i \in 1..Len(connect.attempts) : AllFailedBefore(i)
    /\ Len(connect.results) \in {Len(connect.attempts) - 1, Len(connect.attempts)}
    /\ Cardinality(AdvertisedAttempts) <= Cardinality(OtherAddresses)
    /\ connect.pc \in {"final", "done"} /\ AllFailedBefore(Len(connect.attempts) + 1) =>
         Cardinality(AdvertisedAttempts) = Cardinality(OtherAddresses)

\* C28 witness: the call on the lastAddress and the call on the advertised
\* address connected to last have thrown, the call on an address connected
\* to earlier has succeeded and was the last call; the node advertises its
\* lastAddress as well
C28_Witness ==
  /\ connect.pc = "done"
  /\ LastAddress # NoAddress
  /\ Len(connect.node.addresses) = 3
  /\ Cardinality(OtherAddresses) = 2
  /\ Len(connect.attempts) = 3
  /\ connect.results = <<FALSE, FALSE, TRUE>>
  /\ connect.attempts[2].address.lastConnected > connect.attempts[3].address.lastConnected
  /\ connect.node.addresses[1].lastConnected < connect.node.addresses[3].lastConnected

\* C29: tryConnectNode calls addOutbound with retryConnecting = true at most
\* once and on the lastAddress, after every other call has thrown and only
\* when it was called with retryConnecting; it makes no such call for a node
\* without lastAddress; and when it was called with retryConnecting for a
\* node with a lastAddress and every call has thrown, it does make that call.
C29_FinalAttemptOnLastAddress ==
  /\ \A i \in FinalAttempts :
       /\ connect.attempts[i].address = LastAddress
       /\ LastAddress # NoAddress
       /\ connect.retryConnecting
       /\ i = Len(connect.attempts)
       /\ AllFailedBefore(i)
       /\ Cardinality(AdvertisedAttempts) = Cardinality(OtherAddresses)
       /\ 1 \notin FinalAttempts
  /\ Cardinality(FinalAttempts) <= 1
  /\ /\ connect.pc = "done"
     /\ connect.retryConnecting /\ LastAddress # NoAddress
     /\ \A j \in 1..Len(connect.attempts) :
          j \notin FinalAttempts => ~connect.results[j]
     => FinalAttempts # {}

\* C29 witness: the calls on the lastAddress and on two advertised addresses
\* have thrown and the call with retryConnecting has been made on the
\* lastAddress
C29_Witness ==
  /\ connect.pc = "final"
  /\ Len(connect.attempts) = 4
  /\ connect.results = <<FALSE, FALSE, FALSE>>
  /\ connect.attempts[4] = [address |-> LastAddress, retryConnecting |-> TRUE]

\* C29 witness: every call has thrown for a node without lastAddress and
\* tryConnectNode, called with retryConnecting, has returned
C29_WitnessNoLastAddress ==
  /\ connect.pc = "done"
  /\ connect.retryConnecting /\ LastAddress = NoAddress
  /\ Len(connect.attempts) = 2
  /\ connect.results = <<FALSE, FALSE>>

\* ------------------------------------------------------------------------
\* C30: the Nodes packet sent in reply to a GetNodes packet has the id of
\* that packet as reqId, and its body has exactly one entry, with the peer's
\* addresses, for every peer that was in peers at the receipt, is not the
\* requester and has a non-empty address list, and no other entry
\* ------------------------------------------------------------------------
\* the entries of the reply for the pub key k
EntriesOf(k) ==
  {i \in DOMAIN getNodes.reply.body : getNodes.reply.body[i].nodePubKey = k}

\* the peer of k was to be listed at the receipt of the GetNodes packet
Listed(k) ==
  /\ getNodes.at[k].has
  /\ k # getNodes.requester
  /\ getNodes.at[k].defined
  /\ Len(getNodes.at[k].addresses) > 0

C30_NodesReplyListsOtherPeers ==
  getNodes.reply.type = "Nodes" =>
    /\ getNodes.reply.reqId = getNodes.reqId
    /\ \A k \in BroadcastKeys :
         Cardinality(EntriesOf(k)) = IF Listed(k) THEN 1 ELSE 0
    /\ \A i \in DOMAIN getNodes.reply.body :
         /\ getNodes.reply.body[i].nodePubKey \in BroadcastKeys
         /\ getNodes.reply.body[i].addresses =
              getNodes.at[getNodes.reply.body[i].nodePubKey].addresses

\* a reply to a requester that is in peers with addresses of its own, while
\* another peer has addresses and a third one has none
C30_Witness ==
  /\ getNodes.pc = "sendNodes"
  /\ getNodes.requester \in BroadcastKeys
  /\ getNodes.at[getNodes.requester].has
  /\ getNodes.at[getNodes.requester].defined
  /\ Len(getNodes.at[getNodes.requester].addresses) > 0
  /\ \E k \in BroadcastKeys : Listed(k)
  /\ \E k \in BroadcastKeys \ {getNodes.requester} :
       getNodes.at[k].has /\ ~Listed(k)
  /\ Len(getNodes.reply.body) = 1

\* ------------------------------------------------------------------------
\* C31: Nodes packets
\* ------------------------------------------------------------------------
\* the step is the receipt of a Nodes packet by pool p
ReceivesNodes(p) == last'.op = "nodes" /\ last'.pool = p

\* the step creates the socket of an outbound connection of pool p to node k
\* that is not retried
DialsOnce(p, k) ==
  \E e \in PeerIds : /\ ~IsInbound(e)
                     /\ peer[e].pc = "none"
                     /\ peer'[e].pc = "dial"
                     /\ peer'[e].pool = p /\ peer'[e].exp = k
                     /\ ~peer'[e].retry

C31_WitnessUnknown ==
  /\ last.op = "nodes"
  /\ \E k \in last.list \ {last.pool} :
       /\ nodes[last.pool][k] = "unknown"
       /\ \E e \in Attempts(last.pool, k) : peer[e].pc = "dial" /\ peer[e].task = "last"

\* ------------------------------------------------------------------------
\* C32: inbound sockets
\* ------------------------------------------------------------------------
\* the step is the accept of a socket with the given remoteAddress
Accepts(remoteAddress) ==
  last'.op = "connection" /\ last'.address = remoteAddress

\* openPeer of peer e has been called and has not returned or thrown
OpenPeerRuns(e) == peer[e].pc \in {"hello", "ack", "dupWait", "closeThrow"}

\* the step creates the Peer e of an inbound socket
CreatesInbound(e) ==
  IsInbound(e) /\ peer[e].pc = "none" /\ peer'[e].pc \notin {"none", "remote"}

\* C32: a socket accepted without remoteAddress or with a banned one is
\* destroyed and no Peer is created for it; every other accepted socket gets
\* one Peer; and an inbound Peer is in pendingInboundPeers exactly while its
\* openPeer call has not returned or thrown, whatever its outcome.
C32_InboundPendingWhileOpening ==
  /\ [](\A e \in PeerIds, p \in Pools :
          e \in pendingInboundPeers[p] <=>
            IsInbound(e) /\ peer[e].pool = p /\ OpenPeerRuns(e))
  /\ [][/\ Accepts("missing") \/ Accepts("banned") =>
             /\ \A e \in PeerIds : ~CreatesInbound(e)
             /\ pendingInboundPeers' = pendingInboundPeers
             /\ peers' = peers
             /\ <<"destroy", NoPeer, last'.key>> \in last'.events
        /\ Accepts("address") =>
             /\ Cardinality({e \in PeerIds : CreatesInbound(e)}) = 1
             /\ <<"destroy", NoPeer, last'.key>> \notin last'.events
             /\ \A e \in PeerIds :
                  CreatesInbound(e) =>
                    /\ peer'[e].pool = last'.pool
                    /\ e \in pendingInboundPeers'[last'.pool] <=> last'.ret = "OK"
       ]_vars

\* C32 witness: the open of an inbound peer has failed after its handshake
\* had begun, and the peer is not in pendingInboundPeers any more
C32_Witness ==
  \E e \in PeerIds :
    /\ IsInbound(e)
    /\ last.op \in {"beginOpen", "completeOpen", "close", "dupTimeout"}
    /\ \E code \in {"INCOMPATIBLE_VERSION", "NODE_ALREADY_CONNECTED", "NOT_CONNECTED"} :
         <<e, code>> \in last.rets
    /\ e \notin pendingInboundPeers[last.pool]

\* the open of an inbound peer has succeeded: the peer is in peers and not in
\* pendingInboundPeers
C32_WitnessOpened ==
  \E e \in PeerIds :
    /\ IsInbound(e)
    /\ <<e, "OK">> \in last.rets
    /\ peers[last.pool][last.key] = e
    /\ e \notin pendingInboundPeers[last.pool]

\* a socket with a banned remoteAddress has been destroyed while an inbound
\* peer is being opened
C32_WitnessDestroyed ==
  /\ last.op = "connection"
  /\ last.address = "banned"
  /\ last.ret = "DESTROYED"
  /\ pendingInboundPeers[last.pool] # {}

\* ------------------------------------------------------------------------
\* C33: removeAddress
\* ------------------------------------------------------------------------
RetriesExceeded == "CONNECTION_RETRIES_MAX_PERIOD_EXCEEDED"

\* the events of the step that stand for a change of the record of a node
NodeWrites ==
  {ev \in last'.events :
     ev[1] \in {"removeAddress", "createNode", "updateAddresses", "lastAddress",
                "lastConnected"}}

\* C33: when openPeer of a peer fails with CONNECTION_RETRIES_MAX_PERIOD_EXCEEDED
\* nodes.removeAddress is called once for the expected pub key and the address
\* of the peer, and the caller of openPeer gets this error; when openPeer
\* fails with another error no address is removed and the record of the
\* node is not written; and removeAddress is called in no other case.
C33_RemoveAddressIffRetriesExceeded ==
  [][/\ \A x \in last'.rets :
          x[2] # "OK" =>
            /\ x[2] = RetriesExceeded <=>
                 <<"removeAddress", x[1], peer[x[1]].exp>> \in last'.events
            /\ x[2] # RetriesExceeded => \A ev \in NodeWrites : ev[2] # x[1]
     /\ \A ev \in NodeWrites :
          ev[1] = "removeAddress" =>
            /\ <<ev[2], RetriesExceeded>> \in last'.rets
            /\ ev[3] = peer[ev[2]].exp
            /\ ~IsInbound(ev[2])
    ]_vars

\* C33 witness: the retried dial of a start-up connection has failed for
\* good, the address has been removed and the error has been thrown
C33_Witness ==
  /\ last.op = "dialFail"
  /\ last.ret = RetriesExceeded
  /\ \E e \in PeerIds :
       /\ <<e, RetriesExceeded>> \in last.rets
       /\ <<"removeAddress", e, last.key>> \in last.events
       /\ pendingOutboundPeers[last.pool][last.key] = NoPeer

\* an open has failed with another error and no address has been removed
C33_WitnessOtherError ==
  /\ \E e \in PeerIds :
       \E code \in {"COULD_NOT_CONNECT", "INCOMPATIBLE_VERSION", "NOT_CONNECTED"} :
         <<e, code>> \in last.rets
  /\ \A ev \in last.events : ev[1] # "removeAddress"

\* ------------------------------------------------------------------------
\* C34: reputation events
\* ------------------------------------------------------------------------
\* the step raises a reputation event
Raises(via) == reputation'.raised # reputation.raised /\ reputation'.via = via

\* the step calls NodeList.addReputationEvent with the event raised, once
ForwardsEvent ==
  /\ reputation'.forwarded = Append(reputation.forwarded, reputation'.event)
  /\ reputation'.score = reputation.score + scoreDelta(reputation'.event)

\* the step leaves the NodeList alone
DropsEvent ==
  /\ reputation'.forwarded = reputation.forwarded
  /\ reputation'.score = reputation.score
  /\ reputation'.banned = reputation.banned

\* C34: a strict pool forwards every event given to addReputationEvent to
\* the NodeList; a pool that is not strict forwards the events ManualBan,
\* ManualUnban, SwapAbuse, SwapMisbehavior, WireProtocolErr and InvalidAuth
\* and drops every other one, which leaves score and ban as they are; the
\* events of a peer go the same way once its nodePubKey is known and are
\* dropped before.
C34_ReputationEventsForwarded ==
  [][/\ Raises("pool") \/ (Raises("peer") /\ reputation.nodePubKey # NoNode) =>
          IF reputation.strict \/ reputation'.event \in SevereEvents
            THEN ForwardsEvent ELSE DropsEvent
     /\ Raises("peer") /\ reputation.nodePubKey = NoNode => DropsEvent
    ]_vars

\* C34 witness: a pool that is not strict has forwarded a severe event of a
\* peer and dropped another event, having dropped an event of the peer
\* before its nodePubKey was known
C34_Witness ==
  /\ ~reputation.strict
  /\ reputation.nodePubKey # NoNode
  /\ reputation.raised = 3
  /\ reputation.event = "SwapSuccess"
  /\ reputation.forwarded = <<"SwapAbuse">>
  /\ reputation.score = -100

\* a strict pool has forwarded an event that is not severe, and the node is
\* banned for its score
C34_WitnessStrict ==
  /\ reputation.strict
  /\ reputation.event = "SwapSuccess"
  /\ reputation.via = "pool"
  /\ Len(reputation.forwarded) = 3
  /\ reputation.banned

\* ------------------------------------------------------------------------
\* C35: closed peers
\* ------------------------------------------------------------------------
\* C35: no entry of peers is a peer whose socket has closed and whose 'close'
\* event has been handled.
C35_NoClosedPeerInPeers ==
  \A p \in Pools, k \in PubKeys :
    peers[p][k] # NoPeer => peer[peers[p][k]].sock # "closed"

\* ------------------------------------------------------------------------
\* C36: admission and disconnect()
\* ------------------------------------------------------------------------
\* the step inserts a peer into peers of pool p under key k
Inserts(p, k) == peers'[p][k] # NoPeer /\ peers'[p][k] # peers[p][k]

\* C36: no step inserts a peer into peers of a pool that is disconnecting or
\* not connected.
C36_NoAdmissionWhileClosed ==
  [][\A p \in Pools, k \in PubKeys :
       Inserts(p, k) => connected[p] /\ ~disconnecting[p]
    ]_vars

\* ------------------------------------------------------------------------
\* C37: after disconnect()
\* ------------------------------------------------------------------------
\* pool p is not connected and not disconnecting, and no peer of it is still
\* to emit 'close'
Disconnected(p) ==
  /\ p \in live
  /\ ~connected[p] /\ ~disconnecting[p]
  /\ \A e \in PeerIds : peer[e].pool = p => peer[e].sock # "closing"

\* C37: while a pool is not connected and not disconnecting, and the 'close'
\* events of its peers have been handled, peers, pendingOutboundPeers and
\* pendingInboundPeers are empty.
C37_DisconnectedPoolIsEmpty ==
  \A p \in Pools :
    Disconnected(p) =>
      /\ \A k \in PubKeys : peers[p][k] = NoPeer
      /\ \A k \in PubKeys : pendingOutboundPeers[p][k] = NoPeer
      /\ pendingInboundPeers[p] = {}

\* ------------------------------------------------------------------------
\* C38: the entry of pendingOutboundPeers and the addOutbound call it is of
\* ------------------------------------------------------------------------
\* the step is the return or the throw of the addOutbound call of peer e
AddOutboundEnds(e) ==
  /\ ~IsInbound(e)
  /\ peer[e].pc \in {"dial", "hello", "ack", "dupWait", "closeThrow"}
  /\ \E x \in last'.rets : x[1] = e

\* C38: while an addOutbound call is between pendingOutboundPeers.set and
\* its return or throw, pendingOutboundPeers maps the pub key to the peer of
\* that call, also when a call with revokeConnectionRetries = true has been
\* made for the same pub key.
C38_PendingMapsOwnPeer ==
  \A p \in Pools, k \in PubKeys :
    \A e \in InProgress(p, k) : pendingOutboundPeers[p][k] = e

\* the second half of C38: the finally block of an addOutbound call does not
\* remove the entry of another call that is still in progress
FinallyRemovesOwnEntry ==
  [][\A e \in PeerIds :
       AddOutboundEnds(e) /\ pendingOutboundPeers[peer[e].pool][peer[e].exp] # e
         => pendingOutboundPeers'[peer[e].pool][peer[e].exp]
              = pendingOutboundPeers[peer[e].pool][peer[e].exp]]_vars

\* ------------------------------------------------------------------------
\* C39: peer.active and peer.close of one session
\* ------------------------------------------------------------------------
\* C39: peer.active is not emitted for a session after its peer.close:
\* whenever peer.active is emitted for a pub key, the peer of the event is
\* the entry of peers of this pub key and is active.
C39_ActiveOnlyWhileInPeers ==
  [][\A e \in PeerIds, k \in PubKeys :
       EmitsActive(e, k) => /\ peers'[peer[e].pool][k] = e
                            /\ peer'[e].active
    ]_vars

\* ------------------------------------------------------------------------
\* C40: every peer in peers becomes active for the subscribers
\* ------------------------------------------------------------------------
\* peer e is in peers and handleOpenedPeer of it has not settled
Opened(e) == peer[e].active /\ peer[e].hop # "none"

\* the last step has emitted peer.active for peer e
ActiveEmitted(e) == \E k \in PubKeys : <<"peer.active", e, k>> \in last.events

\* the last step has logged the rejection of handleOpenedPeer of peer e
ErrorLogged(e) == \E k \in PubKeys : <<"logger.error", e, k>> \in last.events

NoActiveOnceSettled ==
  [][\A e \in PeerIds, k \in PubKeys :
       EmitsActive(e, k) => peer[e].hop # "none"]_vars

C40_WitnessEmitted ==
  \E e \in PeerIds :
    /\ ActiveEmitted(e)
    /\ peer[e].active /\ peers[peer[e].pool][peer[e].key] = e

====
